---- MODULE Spec2Model ----
(***************************************************************************)
(* A model of the LXE package format and its two endpoints: the builder    *)
(* (lxe-cli) that assembles and signs a package, and the runtime           *)
(* (lxe-runtime, lxe-common) that locates, authenticates, extracts,        *)
(* installs and uninstalls it.                                             *)
(*                                                                         *)
(* Conventions.  A Rust Option is a sequence of length 0 (None) or 1       *)
(* (Some).  A Rust String that the code only compares is a TLA+ string; a  *)
(* String that the code decodes (hex) is a sequence of one-character       *)
(* strings.  A JSON value is a sequence of strings whose head is its type  *)
(* tag, so that any two JSON values can be compared.                       *)
(***************************************************************************)
EXTENDS Integers, Sequences, FiniteSets, TLC

VARIABLES
    \* ---- package build / verify / launch -------------------------------
    built,      \* the package file as cmd_build wrote it (NoPkg before)
    pkg,        \* the package file as it is on disk now
    signed_msg, \* the bytes sign_metadata signed at build (None if unsigned)
    ntamper,    \* number of post-build modifications of the file
    phase,      \* position of the build/launch scenario
    info,       \* result of read_payload_info in the runtime's main
    window,     \* whether a wizard window has been created
    verdict     \* what the builder's `verify FILE` printed ("" before)

pkgvars == <<built, pkg, signed_msg, ntamper, phase, info, window, verdict>>

VARIABLES
    \* ---- installation: authorization gate, extraction, placement --------
    files,      \* the filesystem's regular files and symlinks: path -> content
    dirs,       \* the filesystem's directories: a set of paths
    files0,     \* files as they were before the run started
    dirs0,      \* dirs as they were before the run started
    run,        \* the inputs of the run: scope, credentials, archive, ...
    ipc,        \* position of the installation run
    epos,       \* index of the next tar entry to unpack
    rx,         \* the progress receiver: alive, and where unpacking stood
                \* when it was dropped
    nrun,       \* installation runs started so far
    snap        \* the filesystem and the inputs when the first run was done

instvars == <<files, dirs, files0, dirs0, run, ipc, epos, rx, nrun, snap>>

VARIABLES
    \* ---- uninstallation ------------------------------------------------
    ureq,       \* the inputs of the uninstall request
    upc         \* its outcome: idle, done, refused, denied, notfound, cancelled

unvars == <<ureq, upc>>

VARIABLES
    \* ---- the wizard's progress page: worker thread and GTK main thread ---
    prun,       \* the inputs of the run
    wpc,        \* position of the worker's main task
    xpc,        \* position of the extraction task
    xcount,     \* progress records the extraction task has emitted
    watch,      \* the watch channel: latest value, unseen flag, sender alive
    fpc,        \* position of the forwarder task
    chan,       \* the mpsc channel: messages sent and not yet received
    sent,       \* every message the worker has sent, in order
    handled,    \* every message the foreground has handled, in order
    signals,    \* extraction-complete / extraction-failed signals emitted
    timer,      \* the polling timeout is installed and the receiver alive
    kpc,        \* `lxe key generate`: its position, its umask, the seed it drew
    kfile,      \* the key file: there or not, its mode, what it holds
    cmp,        \* compare_versions: its two arguments and what it returned
    procs,      \* two installer processes at work in one target directory
    post        \* install_silent after extraction: its position and its results

progvars == <<prun, wpc, xpc, xcount, watch, fpc, chan, sent, handled, signals, timer>>

keyvars == <<kpc, kfile>>
toolvars == <<keyvars, cmp, procs, post>>

vars == <<pkgvars, instvars, unvars, progvars, toolvars>>

\* Nothing of key generation, version comparison or concurrent installs
\* has happened
NoKeyGen == [pc |-> "idle", umask |-> <<0, 0, 0>>, seed |-> 0]
NoKeyFile == [exists |-> FALSE, mode |-> <<0, 0, 0>>, data |-> ""]
NoCmp == [v1 |-> <<>>, v2 |-> <<>>, ord |-> ""]
NoProcs == <<>>
NoPost == [pc |-> "idle", ok |-> {}, runtime_path |-> <<>>, desktop_path |-> <<>>,
           symlink_path |-> <<>>, icon_path |-> <<>>, saved |-> <<>>]

ToolIdle ==
    /\ kpc = NoKeyGen
    /\ kfile = NoKeyFile
    /\ cmp = NoCmp
    /\ procs = NoProcs
    /\ post = NoPost


None == <<>>
Some(x) == <<x>>
IsSome(o) == Len(o) = 1

Max(a, b) == IF a >= b THEN a ELSE b
Min(a, b) == IF a <= b THEN a ELSE b

(***************************************************************************)
(* Bounds of the model.                                                    *)
(***************************************************************************)
MaxTamper == 2      \* post-build modifications of a package file
MaxPayload == 2     \* length of a payload in bytes
MaxEntries == 2     \* number of entries in a tar stream

(***************************************************************************)
(* Program constants.                                                      *)
(***************************************************************************)
MagicLen == 8               \* LXE_MAGIC.len()
LenFieldSize == 4           \* the u32 metadata length
ChecksumSize == 32          \* checksum_size
FooterSize == 16            \* u64 offset + magic
MetadataVersion == 1        \* METADATA_VERSION
MaxMetadataLen == 1048576   \* 1024 * 1024
ScanLimit == 10485760       \* 10 * 1024 * 1024

(***************************************************************************)
(* Bytes, hex and SHA-256.                                                 *)
(* A payload is a sequence of bytes drawn from 0..1.  Sha256 is modelled   *)
(* as a digest without collisions on the inputs of the model: the length   *)
(* of the input and its binary value, laid out in four bytes.              *)
(***************************************************************************)
Byte == 0..1

RECURSIVE BinVal(_)
BinVal(p) == IF p = <<>> THEN 0 ELSE 2 * BinVal(SubSeq(p, 1, Len(p) - 1)) + p[Len(p)]

\* calculate_sha256 without the hex step: the raw digest bytes
Sha256(p) ==
    <<Len(p) % 256, (BinVal(p) \div 65536) % 256, (BinVal(p) \div 256) % 256, BinVal(p) % 256>>

HexDigits == <<"0", "1", "2", "3", "4", "5", "6", "7", "8", "9", "a", "b", "c", "d", "e", "f">>

HexVal(c) == CHOOSE i \in 1..16 : HexDigits[i] = c

IsHexDigit(c) == \E i \in 1..16 : HexDigits[i] = c

\* hex::encode: two lower-case digits per byte
RECURSIVE HexEncode(_)
HexEncode(bytes) ==
    IF bytes = <<>> THEN <<>>
    ELSE <<HexDigits[(Head(bytes) \div 16) + 1], HexDigits[(Head(bytes) % 16) + 1]>>
         \o HexEncode(Tail(bytes))

RECURSIVE HexDecodeDigits(_)
HexDecodeDigits(cs) ==
    IF cs = <<>> THEN <<>>
    ELSE <<(HexVal(cs[1]) - 1) * 16 + (HexVal(cs[2]) - 1)>> \o HexDecodeDigits(SubSeq(cs, 3, Len(cs)))

\* hex::decode: fails on an odd length or a character that is no hex digit
HexDecode(cs) ==
    IF Len(cs) % 2 # 0 \/ \E i \in 1..Len(cs) : ~IsHexDigit(cs[i])
    THEN [ok |-> FALSE, bytes |-> <<>>]
    ELSE [ok |-> TRUE, bytes |-> HexDecodeDigits(cs)]

(***************************************************************************)
(* Base64 and Ed25519.                                                     *)
(* Base64 text is the raw chunks behind a "b64" tag; anything else does    *)
(* not decode.  A key pair is named by its seed; a signature is the ideal  *)
(* one: it names the signing key and the exact message signed.             *)
(***************************************************************************)
Seeds == {1}

Base64Encode(raw) == <<"b64">> \o raw

Base64Decode(text) ==
    IF text # <<>> /\ Head(text) = "b64"
    THEN [ok |-> TRUE, raw |-> Tail(text)]
    ELSE [ok |-> FALSE, raw |-> <<>>]

\* signing_key.verifying_key().as_bytes(): 32 bytes, here two chunks
VerifyingKeyBytes(seed) == <<"K", ToString(seed)>>

RECURSIVE FlattenJson(_)
FlattenJson(j) == IF j = <<>> THEN <<>> ELSE Head(j) \o <<";">> \o FlattenJson(Tail(j))

RECURSIVE BytesToChunks(_)
BytesToChunks(bs) == IF bs = <<>> THEN <<>> ELSE <<ToString(Head(bs))>> \o BytesToChunks(Tail(bs))

\* The byte string json || checksum_bytes, as chunks
MsgChunks(msg) == FlattenJson(msg.json) \o <<"|">> \o BytesToChunks(msg.sum)

\* signing_key.sign(data).to_bytes(): 64 bytes
Ed25519Sign(seed, msg) == <<"sig">> \o VerifyingKeyBytes(seed) \o MsgChunks(msg)

\* verifying_key.verify(data, &signature)
Ed25519Verify(keybytes, msg, sig) == sig = <<"sig">> \o keybytes \o MsgChunks(msg)

\* signing.rs verify_signature: Err on a decode or length failure, else Ok(bool)
verify_signature(data, signature_base64, public_key_base64) ==
    LET pk == Base64Decode(public_key_base64)
        sg == Base64Decode(signature_base64)
    IN  IF ~pk.ok \/ Len(pk.raw) # 2 THEN [ok |-> FALSE, valid |-> FALSE]
        ELSE IF ~sg.ok \/ sg.raw = <<>> \/ Head(sg.raw) # "sig" THEN [ok |-> FALSE, valid |-> FALSE]
        ELSE [ok |-> TRUE, valid |-> Ed25519Verify(pk.raw, data, sg.raw)]

\* signing.rs create_signable_data: json bytes followed by the decoded checksum
create_signable_data(signable_metadata_json, payload_checksum_hex) ==
    LET d == HexDecode(payload_checksum_hex)
    IN  IF ~d.ok THEN [ok |-> FALSE, data |-> [json |-> <<>>, sum |-> <<>>]]
        ELSE [ok |-> TRUE, data |-> [json |-> signable_metadata_json, sum |-> d.bytes]]

(***************************************************************************)
(* JSON.  A value is a sequence of strings headed by its type tag.  The    *)
(* embedded metadata is a JSON object: a function from the keys present    *)
(* to values (serde_json's Value map).  The signable JSON is a struct      *)
(* serialisation: a sequence of members <<key>> \o value in field order.   *)
(***************************************************************************)
JNull == <<"null">>
JStr(s) == <<"s">> \o s
JNum(n) == <<"n", ToString(n)>>
JBool(b) == <<"b", IF b THEN "true" ELSE "false">>
JArr(a) == <<"a">> \o a
JOptStr(o) == IF IsSome(o) THEN JStr(o[1]) ELSE JNull
\* the installer object: welcome_title (string or null) and show_launch
JInstaller(i) == <<"o">> \o JBool(i.show_launch) \o JOptStr(i.welcome_title)

MaxNum == 300
IsJNum(v) == Len(v) = 2 /\ v[1] = "n" /\ \E n \in 0..MaxNum : ToString(n) = v[2]
NumOf(v) == CHOOSE n \in 0..MaxNum : ToString(n) = v[2]
IsJStr(v) == v # <<>> /\ v[1] = "s"
IsJBool(v) == Len(v) = 2 /\ v[1] = "b" /\ v[2] \in {"true", "false"}
IsJArr(v) == v # <<>> /\ v[1] = "a"
IsJInstaller(v) == Len(v) >= 4 /\ v[1] = "o" /\ IsJBool(SubSeq(v, 2, 3))
                   /\ (SubSeq(v, 4, Len(v)) = JNull \/ IsJStr(SubSeq(v, 4, Len(v))))

Has(obj, k) == k \in DOMAIN obj

\* obj with key k set to v (serde_json: metadata["k"] = v)
JSet(obj, k, v) == [x \in (DOMAIN obj) \cup {k} |-> IF x = k THEN v ELSE obj[x]]

(***************************************************************************)
(* metadata.rs: LxeMetadata, its deserialisation and signable projection.  *)
(***************************************************************************)
RequiredStrFields == {"app_id", "name", "version", "arch", "exec", "payload_checksum"}
RequiredNumFields == {"format_version", "install_size"}
OptionalStrFields == {"icon", "description", "min_runtime_version", "license", "homepage",
                      "exec_args", "wm_class", "public_key", "signature"}

\* The sixteen fields of struct SignableMetadata, in declaration order
SignableOrder == <<"format_version", "app_id", "name", "version", "arch", "install_size",
                   "exec", "icon", "categories", "description", "payload_checksum",
                   "min_runtime_version", "license", "homepage", "exec_args", "terminal">>

SignableFields == {SignableOrder[i] : i \in 1..Len(SignableOrder)}

UnsignedFields == {"wm_class", "installer", "public_key", "signature"}

MetaFields == SignableFields \cup UnsignedFields

DefaultInstaller == [welcome_title |-> None, show_launch |-> TRUE]

\* serde_json::from_slice::<LxeMetadata>: required fields must be present with
\* the right type; an Option is None when missing or null; #[serde(default)]
\* fields take their default when missing (and reject null); unknown keys are
\* ignored.
MetadataParses(obj) ==
    /\ \A k \in RequiredStrFields : Has(obj, k) /\ IsJStr(obj[k])
    /\ \A k \in RequiredNumFields : Has(obj, k) /\ IsJNum(obj[k])
    /\ NumOf(obj["format_version"]) <= 255
    /\ \A k \in OptionalStrFields : Has(obj, k) => (obj[k] = JNull \/ IsJStr(obj[k]))
    /\ Has(obj, "categories") => IsJArr(obj["categories"])
    /\ Has(obj, "terminal") => IsJBool(obj["terminal"])
    /\ Has(obj, "installer") => IsJInstaller(obj["installer"])

ParseOpt(obj, k) == IF Has(obj, k) /\ obj[k] # JNull THEN Some(Tail(obj[k])) ELSE None

ParseInstaller(v) ==
    [show_launch |-> v[3] = "true",
     welcome_title |-> IF SubSeq(v, 4, Len(v)) = JNull THEN None ELSE Some(SubSeq(v, 5, Len(v)))]

ParseMetadata(obj) ==
    [format_version |-> NumOf(obj["format_version"]),
     app_id |-> Tail(obj["app_id"]),
     name |-> Tail(obj["name"]),
     version |-> Tail(obj["version"]),
     arch |-> Tail(obj["arch"]),
     install_size |-> NumOf(obj["install_size"]),
     exec |-> Tail(obj["exec"]),
     icon |-> ParseOpt(obj, "icon"),
     categories |-> IF Has(obj, "categories") THEN Tail(obj["categories"]) ELSE <<>>,
     description |-> ParseOpt(obj, "description"),
     payload_checksum |-> Tail(obj["payload_checksum"]),
     min_runtime_version |-> ParseOpt(obj, "min_runtime_version"),
     license |-> ParseOpt(obj, "license"),
     homepage |-> ParseOpt(obj, "homepage"),
     exec_args |-> ParseOpt(obj, "exec_args"),
     terminal |-> IF Has(obj, "terminal") THEN obj["terminal"][2] = "true" ELSE FALSE,
     wm_class |-> ParseOpt(obj, "wm_class"),
     installer |-> IF Has(obj, "installer") THEN ParseInstaller(obj["installer"])
                   ELSE DefaultInstaller,
     public_key |-> ParseOpt(obj, "public_key"),
     signature |-> ParseOpt(obj, "signature")]

\* One member of the serialised struct; an absent optional is skipped
\* (skip_serializing_if = "Option::is_none")
Member(k, v) == <<<<k>> \o v>>
OptMember(k, o) == IF IsSome(o) THEN Member(k, JStr(o[1])) ELSE <<>>

\* #[derive(Serialize)] struct SignableMetadata through serde_json::to_vec
SerializeSignable(sg) ==
       Member("format_version", JNum(sg.format_version))
    \o Member("app_id", JStr(sg.app_id))
    \o Member("name", JStr(sg.name))
    \o Member("version", JStr(sg.version))
    \o Member("arch", JStr(sg.arch))
    \o Member("install_size", JNum(sg.install_size))
    \o Member("exec", JStr(sg.exec))
    \o OptMember("icon", sg.icon)
    \o Member("categories", JArr(sg.categories))
    \o OptMember("description", sg.description)
    \o Member("payload_checksum", JStr(sg.payload_checksum))
    \o OptMember("min_runtime_version", sg.min_runtime_version)
    \o OptMember("license", sg.license)
    \o OptMember("homepage", sg.homepage)
    \o OptMember("exec_args", sg.exec_args)
    \o Member("terminal", JBool(sg.terminal))

\* to_signable_json as it would be if it also carried wm_class (in the
\* place of exec_args)
to_signable_json_with_wm_class(m) ==
    SerializeSignable(
        [format_version |-> m.format_version, app_id |-> m.app_id, name |-> m.name,
         version |-> m.version, arch |-> m.arch, install_size |-> m.install_size,
         exec |-> m.exec, icon |-> m.icon, categories |-> m.categories,
         description |-> m.description, payload_checksum |-> m.payload_checksum,
         min_runtime_version |-> m.min_runtime_version, license |-> m.license,
         homepage |-> m.homepage, exec_args |-> m.wm_class, terminal |-> m.terminal])

\* LxeMetadata::to_signable_json
to_signable_json(m) ==
    SerializeSignable(
        [format_version |-> m.format_version,
         app_id |-> m.app_id,
         name |-> m.name,
         version |-> m.version,
         arch |-> m.arch,
         install_size |-> m.install_size,
         exec |-> m.exec,
         icon |-> m.icon,
         categories |-> m.categories,
         description |-> m.description,
         payload_checksum |-> m.payload_checksum,
         min_runtime_version |-> m.min_runtime_version,
         license |-> m.license,
         homepage |-> m.homepage,
         exec_args |-> m.exec_args,
         terminal |-> m.terminal])

\* LxeMetadata::is_signed
is_signed(m) == IsSome(m.public_key) /\ IsSome(m.signature)

(***************************************************************************)
(* The package file.  Regions are kept apart; offsets and sizes are        *)
(* computed from the layout                                                *)
(*   runtime | magic(8) | len(4) | metadata | digest(32) | payload |       *)
(*   offset(8) | magic(8).                                                 *)
(* The metadata region holds one unit per JSON member; the digest region   *)
(* holds the modelled digest and counts for 32 bytes.                      *)
(***************************************************************************)
NoPkg == [runtime_len |-> 0, runtime_magic |-> {}, runtime_fill |-> 0, header_magic |-> FALSE,
          meta_len |-> 0, meta |-> <<>>, digest |-> <<>>, payload |-> <<>>, footer_off |-> 0,
          footer_magic |-> FALSE, trunc |-> 0]

JsonLen(obj) == Cardinality(DOMAIN obj)

\* The length of the file as it was assembled
FullSize(f) == f.runtime_len + MagicLen + LenFieldSize + JsonLen(f.meta) + ChecksumSize
               + Len(f.payload) + FooterSize

\* file.metadata()?.len(): the file may have lost its last f.trunc bytes
FileSize(f) == FullSize(f) - f.trunc

\* Offsets of the file at which the 8 bytes of LXE_MAGIC occur
MagicPositions(f) ==
    {q \in f.runtime_magic
           \cup (IF f.header_magic THEN {f.runtime_len} ELSE {})
           \cup (IF f.footer_magic THEN {FullSize(f) - MagicLen} ELSE {}) :
        q + MagicLen <= FileSize(f)}

\* The bytes of LXE_MAGIC
MagicBytes == <<0, 76, 88, 69, 240, 159, 147, 1>>

\* u64::to_le_bytes and friends: k bytes, least significant first
RECURSIVE LEBytes(_, _)
LEBytes(n, k) == IF k = 0 THEN <<>> ELSE <<n % 256>> \o LEBytes(n \div 256, k - 1)

\* The byte at offset i (from 0) of the file as assembled: runtime image
\* (its fill byte, or the magic where it has it), magic, metadata length,
\* metadata JSON, digest, payload, footer
ByteAt(f, i) ==
    LET header == f.runtime_len
        len_at == header + MagicLen
        json_at == len_at + LenFieldSize
        digest_at == json_at + JsonLen(f.meta)
        payload_at == digest_at + ChecksumSize
        footer_at == payload_at + Len(f.payload)
    IN  IF i < header
        THEN IF \E q \in f.runtime_magic : q <= i /\ i < q + MagicLen
             THEN MagicBytes[i - (CHOOSE q \in f.runtime_magic : q <= i /\ i < q + MagicLen) + 1]
             ELSE f.runtime_fill
        ELSE IF i < len_at THEN (IF f.header_magic THEN MagicBytes[i - header + 1] ELSE 0)
        ELSE IF i < json_at THEN LEBytes(f.meta_len, LenFieldSize)[i - len_at + 1]
        ELSE IF i < digest_at THEN 123
        ELSE IF i < payload_at
             THEN (IF i - digest_at + 1 <= Len(f.digest) THEN f.digest[i - digest_at + 1] ELSE 0)
        ELSE IF i < footer_at THEN f.payload[i - payload_at + 1]
        ELSE IF i < footer_at + 8 THEN LEBytes(f.footer_off, 8)[i - footer_at + 1]
        ELSE (IF f.footer_magic THEN MagicBytes[i - footer_at - 8 + 1] ELSE 0)

\* u64::from_le_bytes of the 8 bytes at offset at, as far as it is compared
\* with offsets of the file: values above MaxMetadataLen are given as
\* MaxMetadataLen + 1
RECURSIVE U64At(_, _, _)
U64At(f, at, k) ==
    IF k = 0 THEN 0
    ELSE Min(MaxMetadataLen + 1, ByteAt(f, at) + 256 * U64At(f, at + 1, k - 1))

SetMax(S) == CHOOSE x \in S : \A y \in S : y <= x

\* payload.rs find_magic_offset: the footer probe, then the scan of the first
\* 10 MiB for the last occurrence of the magic
\* The same without the footer probe: the scan alone
find_magic_offset_scan_only(f, file_size) ==
    IF file_size < 16 THEN None
    ELSE LET scan_size == Min(file_size, ScanLimit)
             hits == {q \in MagicPositions(f) : q + MagicLen <= scan_size}
         IN  IF hits # {} THEN Some(SetMax(hits)) ELSE None

\* The same trusting whatever offset the footer holds
FooterProbeUnchecked(f, file_size) ==
    IF file_size < 16 THEN None
    ELSE LET footer_start == file_size - 16
             offset == U64At(f, footer_start, 8)
         IN  IF (footer_start + 8) \in MagicPositions(f) THEN Some(offset) ELSE None

\* find_magic_offset, step 1: the offset the footer gives, when the last 8
\* bytes are the magic and the offset passes the sanity check
FooterProbe(f, file_size) ==
    IF file_size < 16 THEN None
    ELSE LET footer_start == file_size - 16
             offset == U64At(f, footer_start, 8)
         IN  IF (footer_start + 8) \in MagicPositions(f) /\ offset < file_size - 16
             THEN Some(offset)
             ELSE None

find_magic_offset(f, file_size) ==
    IF file_size < 16 THEN None
    ELSE IF IsSome(FooterProbe(f, file_size)) THEN FooterProbe(f, file_size)
    ELSE LET scan_size == Min(file_size, ScanLimit)
             hits == {q \in MagicPositions(f) : q + MagicLen <= scan_size}
         IN  IF hits # {} THEN Some(SetMax(hits)) ELSE None

\* The last 16 bytes of the file
FooterBytes(f) ==
    LEBytes(f.footer_off, 8) \o (IF f.footer_magic THEN MagicBytes ELSE LEBytes(0, 8))

\* Offset of the first payload byte in the file
PayloadStart(f) == f.runtime_len + MagicLen + LenFieldSize + JsonLen(f.meta) + ChecksumSize

\* Seek to off (at or after the first payload byte) and read up to n bytes,
\* stopping at the end of the file
ReadRange(f, off, n) ==
    LET tail == f.payload \o FooterBytes(f)
        from == off - PayloadStart(f) + 1
    IN  SubSeq(tail, from, Min(from + n - 1, Len(tail)))

ReadErr(e) == [ok |-> FALSE, err |-> e, metadata |-> <<>>, payload_offset |-> 0, payload_size |-> 0]

\* payload.rs verify_package_signature: TRUE for Ok(()), FALSE for Err
verify_package_signature(m) ==
    IF ~IsSome(m.public_key) \/ ~IsSome(m.signature) THEN FALSE
    ELSE LET signable_json == to_signable_json(m)
             signable_data == create_signable_data(signable_json, m.payload_checksum)
             v == verify_signature(signable_data.data, m.signature[1], m.public_key[1])
         IN  signable_data.ok /\ v.ok /\ v.valid

\* payload.rs read_payload_info.  Bytes found at an offset other than the
\* header's are not a header: the length or the JSON read there fails.
\* overflow_checks: the build traps arithmetic overflow (a debug build);
\* without them `file_size - payload_offset` wraps, and payload_size is given
\* as the i64 with the bits of the u64.
read_payload_info_build(f, overflow_checks) ==
    LET file_size == FileSize(f)
        magic_offset == find_magic_offset(f, file_size)
    IN  IF magic_offset = None THEN ReadErr("LXE magic bytes not found in binary")
        ELSE IF magic_offset[1] + MagicLen + LenFieldSize > file_size
             THEN ReadErr("failed to fill whole buffer")
        ELSE IF magic_offset[1] # f.runtime_len \/ ~f.header_magic
             THEN ReadErr("Failed to parse LXE metadata")
        ELSE IF f.meta_len > MaxMetadataLen THEN ReadErr("Metadata length exceeds maximum")
        ELSE IF magic_offset[1] + MagicLen + LenFieldSize + f.meta_len > file_size
             THEN ReadErr("failed to fill whole buffer")
        ELSE IF ~MetadataParses(f.meta) THEN ReadErr("Failed to parse LXE metadata")
        ELSE LET metadata == ParseMetadata(f.meta)
                 current_pos == magic_offset[1] + MagicLen + LenFieldSize + f.meta_len
                 payload_offset == current_pos + ChecksumSize
                 payload_size == file_size - payload_offset
             IN  IF payload_offset > file_size /\ overflow_checks
                 THEN ReadErr("panicked: attempt to subtract with overflow")
                 ELSE IF is_signed(metadata) /\ ~verify_package_signature(metadata)
                 THEN ReadErr("SECURITY: Package signature verification FAILED!")
                 ELSE [ok |-> TRUE, err |-> "", metadata |-> metadata,
                       payload_offset |-> payload_offset, payload_size |-> payload_size]

\* read_payload_info in a release build
read_payload_info(f) == read_payload_info_build(f, FALSE)

\* extractor.rs verify_checksum: hash payload_size bytes from payload_offset
\* and compare with the checksum of the metadata
verify_checksum(f, payload_info) ==
    LET expected == payload_info.metadata.payload_checksum
        computed == HexEncode(Sha256(ReadRange(f, payload_info.payload_offset,
                                               payload_info.payload_size)))
    IN  computed = expected

(***************************************************************************)
(* The builder: lxe-cli cmd_build and sign_metadata.                       *)
(***************************************************************************)
AsStr(obj, k) == IF Has(obj, k) /\ IsJStr(obj[k]) THEN Some(Tail(obj[k])) ELSE None

\* sign_metadata as it would be if it left `terminal` at its default
SignedMessageDefaultTerminal(obj, checksum) ==
    [json |-> SerializeSignable(
        [format_version |-> 1,
         app_id |-> Tail(obj["app_id"]),
         name |-> Tail(obj["name"]),
         version |-> Tail(obj["version"]),
         arch |-> Tail(obj["arch"]),
         install_size |-> NumOf(obj["install_size"]),
         exec |-> Tail(obj["exec"]),
         icon |-> ParseOpt(obj, "icon"),
         categories |-> Tail(obj["categories"]),
         description |-> ParseOpt(obj, "description"),
         payload_checksum |-> Tail(obj["payload_checksum"]),
         min_runtime_version |-> None,
         license |-> None,
         homepage |-> None,
         exec_args |-> None,
         terminal |-> FALSE]),
     sum |-> HexDecode(checksum).bytes]

\* sign_metadata, the message: the SignableMetadata it fills from the JSON
\* value, serialised, followed by the decoded checksum
SignedMessage(obj, checksum) ==
    [json |-> SerializeSignable(
        [format_version |-> 1,
         app_id |-> AsStr(obj, "app_id")[1],
         name |-> AsStr(obj, "name")[1],
         version |-> AsStr(obj, "version")[1],
         arch |-> AsStr(obj, "arch")[1],
         install_size |-> NumOf(obj["install_size"]),
         exec |-> AsStr(obj, "exec")[1],
         icon |-> AsStr(obj, "icon"),
         categories |-> IF Has(obj, "categories") /\ IsJArr(obj["categories"])
                        THEN Tail(obj["categories"]) ELSE <<>>,
         description |-> AsStr(obj, "description"),
         payload_checksum |-> AsStr(obj, "payload_checksum")[1],
         min_runtime_version |-> None,
         license |-> None,
         homepage |-> None,
         exec_args |-> None,
         terminal |-> IF Has(obj, "terminal") /\ IsJBool(obj["terminal"])
                      THEN obj["terminal"][2] = "true" ELSE FALSE]),
     sum |-> HexDecode(checksum).bytes]

\* sign_metadata: the JSON value with "signature" and "public_key" added
sign_metadata(obj, seed, checksum) ==
    LET signature == Ed25519Sign(seed, SignedMessage(obj, checksum))
    IN  JSet(JSet(obj, "signature", JStr(Base64Encode(signature))),
             "public_key", JStr(Base64Encode(VerifyingKeyBytes(seed))))

\* cmd_build: the json!({...}) metadata value
BuildMetadata(cfg, tar_len, checksum) ==
    [k \in {"format_version", "app_id", "name", "version", "arch", "install_size", "exec",
            "icon", "description", "categories", "terminal", "wm_class",
            "payload_checksum", "installer"} |->
        CASE k = "format_version" -> JNum(1)
          [] k = "app_id" -> JStr(cfg.id)
          [] k = "name" -> JStr(cfg.name)
          [] k = "version" -> JStr(cfg.version)
          [] k = "arch" -> JStr(<<"x86_64">>)
          [] k = "install_size" -> JNum(tar_len)
          [] k = "exec" -> JStr(cfg.executable)
          [] k = "icon" -> JOptStr(cfg.icon)
          [] k = "description" -> JOptStr(cfg.description)
          [] k = "categories" -> JArr(cfg.categories)
          [] k = "terminal" -> JBool(cfg.terminal)
          [] k = "wm_class" -> JOptStr(cfg.wm_class)
          [] k = "payload_checksum" -> JStr(checksum)
          [] k = "installer" -> JInstaller([welcome_title |-> cfg.welcome_title,
                                            show_launch |-> TRUE])]

\* cmd_build: the assembled output file.  key is None or Some(seed).
BuildPackage(cfg, tar_len, compressed, key, runtime_data) ==
    LET checksum == HexEncode(Sha256(compressed))
        unsigned == BuildMetadata(cfg, tar_len, checksum)
        metadata == IF IsSome(key) THEN sign_metadata(unsigned, key[1], checksum) ELSE unsigned
    IN  [runtime_len |-> runtime_data.len,
         runtime_magic |-> runtime_data.magic_at,
         runtime_fill |-> 0,
         header_magic |-> TRUE,
         meta_len |-> JsonLen(metadata),
         meta |-> metadata,
         digest |-> HexDecode(checksum).bytes,
         payload |-> compressed,
         footer_off |-> runtime_data.len,
         footer_magic |-> TRUE,
         trunc |-> 0]

(***************************************************************************)
(* Inputs of the build scenario.                                           *)
(***************************************************************************)
\* The [package] and [installer] tables of lxe.toml
Config(icon, categories) ==
    [id |-> <<"com.ex.demo">>, name |-> <<"Demo">>, version |-> <<"1.0.0">>,
     executable |-> <<"run">>, icon |-> icon,
     description |-> IF categories = <<>> THEN None ELSE Some(<<"A demo">>),
     categories |-> categories, terminal |-> IsSome(icon),
     wm_class |-> IF categories = <<>> THEN Some(<<"Demo">>) ELSE None,
     welcome_title |-> icon]

Configs == { Config(o, c) : o \in {None, Some(<<"icon.png">>)}, c \in {<<>>, <<"Utility">>} }

Payloads == { [i \in 1..n |-> i % 2] : n \in 1..MaxPayload }

TarLen == 10        \* uncompressed tar length of the input tree
RuntimeLen == 40    \* length of the runtime image

\* The runtime image the builder prepends: its length and the offsets at
\* which it has the 8 bytes of LXE_MAGIC in it (the runtime is compiled with
\* that constant)
RuntimeImages == {[len |-> RuntimeLen, magic_at |-> at] : at \in {{}, {RuntimeLen - 20}}}

(***************************************************************************)
(* The build / tamper / launch scenario.                                   *)
(***************************************************************************)
PkgInit ==
    /\ built = NoPkg
    /\ pkg = NoPkg
    /\ signed_msg = None
    /\ ntamper = 0
    /\ phase = "config"
    /\ info = ReadErr("")
    /\ window = FALSE
    /\ verdict = ""

\* lxe build: cmd_build on one configuration, with or without [security] key
cmd_build ==
    /\ phase = "config"
    /\ \E cfg \in Configs, compressed \in Payloads, key \in {None} \cup {Some(sd) : sd \in Seeds},
          runtime_data \in RuntimeImages :
          LET out == BuildPackage(cfg, TarLen, compressed, key, runtime_data)
          IN  /\ built' = out
              /\ pkg' = out
              /\ signed_msg' = IF IsSome(key)
                               THEN Some(SignedMessage(
                                        BuildMetadata(cfg, TarLen, HexEncode(Sha256(compressed))),
                                        HexEncode(Sha256(compressed))))
                               ELSE None
    /\ phase' = "built"
    /\ UNCHANGED <<ntamper, info, window, verdict, instvars, unvars, progvars, toolvars>>

\* Someone changes one byte of the payload region of the file
TamperPayload ==
    /\ phase = "built"
    /\ ntamper < MaxTamper
    /\ \E i \in 1..Len(pkg.payload) :
          pkg' = [pkg EXCEPT !.payload[i] = 1 - pkg.payload[i]]
    /\ ntamper' = ntamper + 1
    /\ UNCHANGED <<built, signed_msg, phase, info, window, verdict, instvars, unvars, progvars, toolvars>>

\* The value a modification gives metadata key k: another value of the type
\* the parser accepts there
AltValue(k) ==
    CASE k \in {"app_id", "name", "version", "arch", "exec"} -> JStr(<<"evil">>)
      [] k = "payload_checksum" -> JStr(HexEncode(Sha256(<<>>)))
      [] k = "format_version" -> JNum(2)
      [] k = "install_size" -> JNum(0)
      [] k = "categories" -> JArr(<<"Evil">>)
      [] k = "terminal" -> JBool(~(built.meta["terminal"][2] = "true"))
      [] k = "installer" -> JInstaller([welcome_title |-> Some(<<"evil">>), show_launch |-> FALSE])
      [] OTHER -> IF Has(built.meta, k) /\ built.meta[k] # JNull THEN JNull ELSE JStr(<<"evil">>)

JRemove(obj, k) == [x \in (DOMAIN obj) \ {k} |-> obj[x]]

\* Someone rewrites one member of the embedded metadata JSON (or puts the
\* built value back)
TamperMetadata ==
    /\ phase = "built"
    /\ ntamper < MaxTamper
    /\ \E k \in MetaFields :
          LET same == IF Has(built.meta, k) THEN Has(pkg.meta, k) /\ pkg.meta[k] = built.meta[k]
                      ELSE ~Has(pkg.meta, k)
              meta2 == IF same THEN JSet(pkg.meta, k, AltValue(k))
                       ELSE IF Has(built.meta, k) THEN JSet(pkg.meta, k, built.meta[k])
                       ELSE JRemove(pkg.meta, k)
          IN  pkg' = [pkg EXCEPT !.meta = meta2, !.meta_len = JsonLen(meta2)]
    /\ ntamper' = ntamper + 1
    /\ UNCHANGED <<built, signed_msg, phase, info, window, verdict, instvars, unvars, progvars, toolvars>>

\* lxe-runtime main on the package as its own executable: read_payload_info,
\* then run_silent_install or run_gui.  display: a display server is there.
main ==
    /\ phase = "built"
    /\ \E silent \in BOOLEAN, display \in BOOLEAN :
          LET r == read_payload_info(pkg)
          IN  /\ info' = r
              /\ IF silent
                 THEN /\ phase' = IF r.ok THEN "silent_install" ELSE "exit_error"
                      /\ window' = FALSE
                 ELSE IF ~display
                 THEN /\ phase' = "exit_error"
                      /\ window' = FALSE
                 ELSE /\ phase' = "gui"
                      /\ window' = TRUE
    /\ UNCHANGED <<built, pkg, signed_msg, ntamper, verdict, instvars, unvars, progvars, toolvars>>

\* lxe verify FILE: cmd_verify
cmd_verify ==
    /\ phase = "built"
    /\ LET r == read_payload_info(pkg)
       IN  /\ info' = r
           /\ verdict' =
                IF ~r.ok THEN "ERROR"
                ELSE LET m == r.metadata
                     IN  IF ~IsSome(m.signature) /\ ~IsSome(m.public_key) THEN "UNSIGNED"
                         ELSE IF IsSome(m.signature) # IsSome(m.public_key) THEN "ERROR"
                         ELSE LET d == create_signable_data(to_signable_json(m), m.payload_checksum)
                                  v == verify_signature(d.data, m.signature[1], m.public_key[1])
                              IN  IF ~d.ok \/ ~v.ok THEN "ERROR"
                                  ELSE IF v.valid THEN "VALID" ELSE "INVALID"
    /\ phase' = "verified"
    /\ UNCHANGED <<built, pkg, signed_msg, ntamper, window, instvars, unvars, progvars, toolvars>>

PkgNext == cmd_build \/ TamperPayload \/ TamperMetadata \/ main \/ cmd_verify

(***************************************************************************)
(* read_payload_info on files that are not whole packages.                 *)
(***************************************************************************)
\* A file of 16 bytes: 8 bytes where a footer has its offset, then the
\* magic.  The 8 bytes are a byte repeated, or the magic itself.
FooterOnlyFile(fill, lead_magic) ==
    LET whole == [NoPkg EXCEPT !.runtime_len = 8, !.runtime_fill = fill,
                               !.runtime_magic = IF lead_magic THEN {0} ELSE {},
                               !.header_magic = TRUE]
    IN  [whole EXCEPT !.trunc = FullSize(whole) - 16]

FillBytes == {0, 1, 255}

\* Someone stores such a file
StoreFooterOnly ==
    /\ phase = "config"
    /\ \E fill \in FillBytes, lead_magic \in BOOLEAN :
          pkg' = FooterOnlyFile(fill, lead_magic)
    /\ phase' = "built"
    /\ UNCHANGED <<built, signed_msg, ntamper, info, window, verdict, instvars, unvars, progvars, toolvars>>

\* The built package loses its end (an interrupted copy or download): any
\* shorter length
Truncate ==
    /\ phase = "built"
    /\ ntamper = 0
    /\ pkg.trunc = 0
    /\ pkg = built
    /\ \E size \in 0..(FullSize(pkg) - 1) :
          pkg' = [pkg EXCEPT !.trunc = FullSize(pkg) - size]
    /\ ntamper' = 1
    /\ UNCHANGED <<built, signed_msg, phase, info, window, verdict, instvars, unvars, progvars, toolvars>>

\* read_payload_info on the file, by a debug or a release build
ReadInfo ==
    /\ phase = "built"
    /\ \E overflow_checks \in BOOLEAN :
          info' = read_payload_info_build(pkg, overflow_checks)
    /\ phase' = "read"
    /\ UNCHANGED <<built, pkg, signed_msg, ntamper, window, verdict, instvars, unvars, progvars, toolvars>>

ReadNext == cmd_build \/ StoreFooterOnly \/ Truncate \/ ReadInfo


(***************************************************************************)
(* Properties of the build / tamper / launch scenario.                     *)
(***************************************************************************)
Launched == phase \in {"gui", "silent_install", "exit_error", "verified"}

RanRuntime == phase \in {"gui", "silent_install", "exit_error"}

BuiltSigned == IsSome(signed_msg)

\* p and q are of one length and differ in exactly one byte
OneByteDiffers(p, q) ==
    /\ Len(p) = Len(q)
    /\ Cardinality({i \in 1..Len(p) : p[i] # q[i]}) = 1

SignatureCheckFails(f) ==
    /\ MetadataParses(f.meta)
    /\ is_signed(ParseMetadata(f.meta))
    /\ ~verify_package_signature(ParseMetadata(f.meta))

\* C1: for a signed package, after a change of any single byte of the payload
\* region (and nothing else), read_payload_info -- run by the runtime at
\* startup and by `verify FILE` -- returns an error, not a PayloadInfo.
C1_PayloadByteChangeFailsVerification ==
    (/\ Launched
     /\ BuiltSigned
     /\ pkg.meta = built.meta
     /\ OneByteDiffers(pkg.payload, built.payload))
    => ~info.ok

\* C2: when signature verification of the embedded package fails, the runtime
\* ends with an error and no wizard window is ever created for that package.
C2_NoWindowWhenSignatureFails ==
    (RanRuntime /\ SignatureCheckFails(pkg)) => (phase = "exit_error" /\ ~window)

\* C8: a package whose metadata carries exactly one of public_key and
\* signature is refused by read_payload_info, never accepted as unsigned.
C8_HalfSignedIsRefused ==
    (/\ Launched
     /\ MetadataParses(pkg.meta)
     /\ IsSome(ParseMetadata(pkg.meta).public_key) # IsSome(ParseMetadata(pkg.meta).signature))
    => ~info.ok

C10_SignableBytesFollowSignableFields ==
    (phase # "config" /\ MetadataParses(pkg.meta))
    => LET a == ParseMetadata(built.meta)
           b == ParseMetadata(pkg.meta)
       IN  (to_signable_json(a) = to_signable_json(b))
           <=> (\A f \in SignableFields : a[f] = b[f])

C10_Witness ==
    /\ phase = "verified"
    /\ BuiltSigned
    /\ ntamper = 2
    /\ MetadataParses(pkg.meta)
    /\ ParseMetadata(pkg.meta).wm_class # ParseMetadata(built.meta).wm_class
    /\ ParseMetadata(pkg.meta).installer # ParseMetadata(built.meta).installer
    /\ to_signable_json(ParseMetadata(pkg.meta)) = to_signable_json(ParseMetadata(built.meta))
    /\ verdict = "VALID"

\* C11: on a package as the builder wrote it the locator returns the offset
\* the builder put in the footer, which is the length of the runtime image,
\* and the footer probe is what gives it
C11_LocatorReturnsRecordedOffset ==
    (Launched /\ pkg = built) =>
        /\ find_magic_offset(pkg, FileSize(pkg)) = Some(built.runtime_len)
        /\ FooterProbe(pkg, FileSize(pkg)) = Some(built.footer_off)
        /\ built.footer_off = built.runtime_len
        /\ info.ok
        /\ info.payload_offset
              = built.runtime_len + MagicLen + LenFieldSize + built.meta_len + ChecksumSize

\* A launched, unmodified package whose runtime image has the magic in it
C11_Witness ==
    /\ RanRuntime
    /\ pkg = built
    /\ built.runtime_magic # {}
    /\ \E q \in built.runtime_magic : q < built.runtime_len
    /\ find_magic_offset(pkg, FileSize(pkg)) = Some(RuntimeLen)

\* C20: for a package as the builder wrote it, the range read_payload_info
\* reports starts after the digest and ends 16 bytes before the end of the
\* file, and hashing it gives the stored digest
C20_PayloadRangeExcludesFooter ==
    (RanRuntime /\ pkg = built /\ info.ok) =>
        /\ info.payload_offset = PayloadStart(pkg)
        /\ info.payload_offset + info.payload_size = FileSize(pkg) - FooterSize
        /\ verify_checksum(pkg, info)

(***************************************************************************)
(* The filesystem.  A path is the sequence of its components, resolved     *)
(* from the root.  files maps the paths of regular files and symlinks to   *)
(* their content; dirs is the set of directories.                          *)
(***************************************************************************)
IsPrefix(p, q) == Len(p) <= Len(q) /\ SubSeq(q, 1, Len(p)) = p

IsUnder(p, d) == IsPrefix(d, p)

\* What the kernel makes of the components of a path: "." is skipped and
\* ".." steps to the parent (the root is its own parent)
RECURSIVE Resolve(_, _)
Resolve(stack, comps) ==
    IF comps = <<>> THEN stack
    ELSE IF Head(comps) = "." THEN Resolve(stack, Tail(comps))
    ELSE IF Head(comps) = ".."
         THEN Resolve(IF stack = <<>> THEN <<>> ELSE SubSeq(stack, 1, Len(stack) - 1), Tail(comps))
    ELSE Resolve(Append(stack, Head(comps)), Tail(comps))

\* PathBuf::join: an absolute argument replaces the base
PathJoin(base, e) == IF e.abs THEN Resolve(<<>>, e.comps) ELSE Resolve(base, e.comps)

Prefixes(p) == {SubSeq(p, 1, n) : n \in 1..Len(p)}

Parent(p) == SubSeq(p, 1, Len(p) - 1)

Exists(fl, ds, p) == p \in DOMAIN fl \/ p \in ds

\* fs::create_dir_all
CreateDirAll(ds, p) == ds \cup Prefixes(p)

\* fs::write, fs::copy, symlink, Entry::unpack of a file: create or replace
WriteFile(fl, p, c) == [x \in (DOMAIN fl) \cup {p} |-> IF x = p THEN c ELSE fl[x]]

RemoveFile(fl, p) == [x \in (DOMAIN fl) \ {p} |-> fl[x]]

\* fs::remove_dir_all
RemoveTreeFiles(fl, d) == [x \in {y \in DOMAIN fl : ~IsUnder(y, d)} |-> fl[x]]
RemoveTreeDirs(ds, d) == {y \in ds : ~IsUnder(y, d)}

Rebase(p, from, to) == to \o SubSeq(p, Len(from) + 1, Len(p))

\* fs::rename of a directory
RenameTreeFiles(fl, from, to) ==
    LET moved == {y \in DOMAIN fl : IsUnder(y, from)}
        kept == {y \in DOMAIN fl : ~IsUnder(y, from)}
    IN  [x \in kept \cup {Rebase(y, from, to) : y \in moved} |->
            IF x \in kept THEN fl[x]
            ELSE fl[CHOOSE y \in moved : Rebase(y, from, to) = x]]
RenameTreeDirs(ds, from, to) ==
    {y \in ds : ~IsUnder(y, from)} \cup {Rebase(y, from, to) : y \in {z \in ds : IsUnder(z, from)}}

\* The files and directories below (and at) d
TreeFiles(fl, d) == [x \in {y \in DOMAIN fl : IsUnder(y, d)} |-> fl[x]]
TreeDirs(ds, d) == {y \in ds : IsUnder(y, d)}

(***************************************************************************)
(* paths.rs and InstallConfig.                                             *)
(***************************************************************************)
SystemBase == <<"usr">>                 \* paths::system::BASE_DIR
UserBase == <<"home", ".local">>        \* parent of dirs::data_local_dir()
UserData == <<"home", ".local", "share">>

BaseDir(is_system) == IF is_system THEN SystemBase ELSE UserBase

\* InstallConfig::app_dir
app_dir(base, app_id) == base \o <<"share", app_id>>
\* InstallConfig::bin_dir
bin_dir(base) == base \o <<"bin">>
\* InstallConfig::applications_dir
applications_dir(base) == base \o <<"share", "applications">>
\* InstallConfig::icons_dir
icons_dir(base) == base \o <<"share", "icons", "hicolor">>

StagingName == ".lxe-extracting"

(***************************************************************************)
(* polkit.rs                                                               *)
(***************************************************************************)
\* is_root: the third whitespace-separated token of the "Uid:" line of
\* /proc/self/status is the effective uid.  status is None when the file
\* cannot be read, else Some(<<"Uid:", real, effective, saved, fs>>).
\* The same reading the second token, the real uid
is_root_real_uid(status) == IF IsSome(status) THEN status[1][2] = "0" ELSE FALSE

is_root(status) == IF IsSome(status) THEN status[1][3] = "0" ELSE FALSE

UidLine(real, effective) == Some(<<"Uid:", real, effective, real, effective>>)

(***************************************************************************)
(* Installation: the authorization gate, extract_inner, and the placement  *)
(* of launcher files.                                                      *)
(***************************************************************************)
AppId == "com.ex.demo"
ExecName == "run"
IconName == "icon.png"

FileEntry(abs, comps) == [kind |-> "file", abs |-> abs, comps |-> comps]

\* An entry the tar reader cannot decode (truncated or corrupt stream), or
\* whose unpacking fails
BadEntry == [kind |-> "bad", abs |-> FALSE, comps |-> <<>>]

EntryChoices ==
    { FileEntry(FALSE, <<ExecName>>),
      FileEntry(FALSE, <<IconName>>),
      FileEntry(FALSE, <<"..", "x">>),
      FileEntry(FALSE, <<"..", AppId, ExecName>>),
      FileEntry(TRUE, <<"etc", "x">>),
      BadEntry }

Tars == UNION {[1..n -> EntryChoices] : n \in 1..MaxEntries}

Uids == {"0", "1000"}

PolkitAnswers == {"granted", "denied", "error"}

DesktopName == "com.ex.demo.desktop"    \* LxeMetadata::desktop_filename
InstalledIconName == "com.ex.demo.png"
ManifestName == "com.ex.demo.json"

RuntimePath(base) == bin_dir(base) \o <<"lxe-runtime">>
DesktopPath(base) == applications_dir(base) \o <<DesktopName>>
LinkPath(base) == bin_dir(base) \o <<ExecName>>
IconDir(base) == icons_dir(base) \o <<"48x48", "apps">>
\* InstallManifest::manifest_path
ManifestPath == UserData \o <<"lxe", "manifests", ManifestName>>

(***************************************************************************)
(* state.rs: what the wizard finds installed.  A desktop entry is a file   *)
(* whose content names the version and the installer that wrote it:        *)
(* "desktop-V" by the wizard's create_desktop_entry, "desktop-V+uninstall" *)
(* by install_silent's, which adds the [Desktop Action Uninstall] group;   *)
(* "desktop-bad" is an entry without an Exec= line.                        *)
(***************************************************************************)
DesktopVersion(c) == IF c \in {"desktop-1.1.0", "desktop-1.1.0+uninstall"} THEN "1.1.0" ELSE "1.0.0"

\* The Exec= and X-LXE-Version= lines of the entry at x, in file order; a
\* value is its whitespace-separated words, a path being its components
DesktopLines(x, c) ==
    LET base == Parent(Parent(Parent(x)))
        launch == [key |-> "Exec", words |-> <<app_dir(base, AppId) \o <<ExecName>>>>]
        ver == [key |-> "X-LXE-Version", words |-> <<DesktopVersion(c)>>]
        action == [key |-> "Exec", words |-> <<RuntimePath(base), "--uninstall-gui", AppId>>]
    IN  CASE c = "desktop-bad" -> <<>>
          [] c \in {"desktop-1.0.0+uninstall", "desktop-1.1.0+uninstall"} -> <<launch, ver, action>>
          [] OTHER -> <<launch, ver>>

\* The same keeping the first Exec= line
RECURSIVE parse_desktop_first_exec(_, _, _)
parse_desktop_first_exec(lines, exec, version) ==
    IF lines = <<>>
    THEN IF exec = None THEN None ELSE Some([exec |-> exec[1], version |-> version])
    ELSE LET line == Head(lines)
         IN  parse_desktop_first_exec(Tail(lines),
                 IF line.key = "Exec" /\ exec = None THEN Some(line.words[1]) ELSE exec,
                 IF line.key = "X-LXE-Version" THEN line.words[1] ELSE version)

\* parse_desktop_file's loop over the lines: each Exec= line sets exec to its
\* first word, each X-LXE-Version= line sets version; None is the Err
RECURSIVE parse_desktop_lines(_, _, _)
parse_desktop_lines(lines, exec, version) ==
    IF lines = <<>>
    THEN IF exec = None THEN None ELSE Some([exec |-> exec[1], version |-> version])
    ELSE LET line == Head(lines)
         IN  parse_desktop_lines(Tail(lines),
                 IF line.key = "Exec" THEN Some(line.words[1]) ELSE exec,
                 IF line.key = "X-LXE-Version" THEN line.words[1] ELSE version)

parse_desktop_file(lines) == parse_desktop_lines(lines, None, "0.0.0")

\* compare_versions' parse: the numeric parts of a version
VersionParts(v) ==
    CASE v = "1.0.0" -> <<1, 0, 0>>
      [] v = "1.1.0" -> <<1, 1, 0>>
      [] v = "0.0.0" -> <<0, 0, 0>>
      [] OTHER -> <<>>

Min2(a, b) == IF a <= b THEN a ELSE b

\* The same deciding by the lengths first
compare_parts_length_first(a, b) ==
    LET differ == {i \in 1..Min2(Len(a), Len(b)) : a[i] # b[i]}
    IN  IF Len(a) < Len(b) THEN "Less"
        ELSE IF Len(a) > Len(b) THEN "Greater"
        ELSE IF differ # {}
        THEN LET i == CHOOSE i \in differ : \A j \in differ : i <= j
             IN  IF a[i] < b[i] THEN "Less" ELSE "Greater"
        ELSE "Equal"

\* compare_versions on the parsed parts: the first differing pair of the
\* zip decides, then the lengths
compare_parts(a, b) ==
    LET differ == {i \in 1..Min2(Len(a), Len(b)) : a[i] # b[i]}
    IN  IF differ # {}
        THEN LET i == CHOOSE i \in differ : \A j \in differ : i <= j
             IN  IF a[i] < b[i] THEN "Less" ELSE "Greater"
        ELSE IF Len(a) < Len(b) THEN "Less"
        ELSE IF Len(a) > Len(b) THEN "Greater"
        ELSE "Equal"

compare_versions(v1, v2) == compare_parts(VersionParts(v1), VersionParts(v2))

\* A version as text: its components between the dots, each the sequence
\* of its characters, a digit being itself and Letter any other character
Letter == 10

\* str::parse::<u32> of one component: None when it is empty or has a
\* character that is no digit
RECURSIVE DigitsValue(_, _)
DigitsValue(c, acc) == IF c = <<>> THEN acc ELSE DigitsValue(Tail(c), 10 * acc + Head(c))

ParseComponent(c) ==
    IF c = <<>> \/ \E i \in 1..Len(c) : c[i] = Letter THEN None ELSE Some(DigitsValue(c, 0))

\* compare_versions' parse: split('.').filter_map(|s| s.parse().ok())
RECURSIVE ParseVersion(_)
ParseVersion(v) ==
    IF v = <<>> THEN <<>>
    ELSE (IF ParseComponent(Head(v)) = None THEN <<>> ELSE ParseComponent(Head(v)))
         \o ParseVersion(Tail(v))

\* compare_versions on versions given as text
compare_version_text(v1, v2) == compare_parts(ParseVersion(v1), ParseVersion(v2))

MaxParts == 3

\* The components and the versions compared
Components == {<<0>>, <<1>>, <<9>>, <<1, 0>>, <<Letter>>}
Versions == UNION {[1..n -> Components] : n \in 1..MaxParts}

\* One call of compare_versions
Compare ==
    /\ cmp = NoCmp
    /\ \E v1 \in Versions, v2 \in Versions :
          cmp' = [v1 |-> v1, v2 |-> v2, ord |-> compare_version_text(v1, v2)]
    /\ UNCHANGED <<keyvars, procs, post, pkgvars, instvars, unvars, progvars>>

Corrupted(desktop_path, is_system) ==
    [kind |-> "Corrupted", install_path |-> Parent(Parent(desktop_path)),
     version |-> "", is_system |-> is_system]

\* check_installation: None when there is no desktop entry at desktop_path
check_installation(fl, ds, desktop_path, version, is_system) ==
    IF desktop_path \notin DOMAIN fl THEN None
    ELSE LET desktop_info == parse_desktop_file(DesktopLines(desktop_path, fl[desktop_path]))
         IN  IF desktop_info = None THEN Some(Corrupted(desktop_path, is_system))
             ELSE LET exec_path == desktop_info[1].exec
                      installed == desktop_info[1].version
                      ord == compare_versions(installed, version)
                  IN  IF ~Exists(fl, ds, exec_path) THEN Some(Corrupted(desktop_path, is_system))
                      ELSE IF Len(exec_path) < 2 THEN None
                      ELSE Some([kind |-> CASE ord = "Equal" -> "Installed"
                                            [] ord = "Less" -> "Upgradeable"
                                            [] OTHER -> "Downgrade",
                                 install_path |-> Parent(Parent(exec_path)),
                                 version |-> installed,
                                 is_system |-> IF ord = "Greater" THEN FALSE ELSE is_system])

Fresh == [kind |-> "Fresh", install_path |-> <<>>, version |-> "", is_system |-> FALSE]

\* The .desktop locations detect_install_state looks at, in order
DesktopLocations ==
    <<[path |-> UserData \o <<"applications", DesktopName>>, is_system |-> FALSE],
      [path |-> <<"usr", "share", "applications", DesktopName>>, is_system |-> TRUE],
      [path |-> <<"usr", "local", "share", "applications", DesktopName>>, is_system |-> TRUE]>>

\* detect_install_state for a package of the given version
detect_install_state(fl, ds, version) ==
    LET found == {i \in 1..3 : check_installation(fl, ds, DesktopLocations[i].path, version,
                                                  DesktopLocations[i].is_system) # None}
    IN  IF found = {} THEN Fresh
        ELSE LET i == CHOOSE i \in found : \A j \in found : i <= j
             IN  check_installation(fl, ds, DesktopLocations[i].path, version,
                                    DesktopLocations[i].is_system)[1]

\* No detection was made (install_silent makes none)
NoState == [kind |-> "", install_path |-> <<>>, version |-> "", is_system |-> FALSE]

\* What the installer reads of the package's metadata
Meta(version, icon) == [version |-> version, exec |-> ExecName, icon |-> icon]

NoRun == [entry |-> "", is_system |-> FALSE, euid |-> "", status |-> None,
          polkit |-> "", path_ok |-> TRUE, meta |-> Meta("", None), tar |-> <<>>,
          state |-> NoState]

\* The directories of the machine before anything is installed
BaseDirs ==
    {<<"usr">>, <<"usr", "share">>, <<"usr", "bin">>, <<"etc">>, <<"home">>}

\* An earlier installation of the same app_id, user-local and system-wide
PriorDirs == BaseDirs \cup Prefixes(app_dir(UserBase, AppId)) \cup Prefixes(app_dir(SystemBase, AppId))
PriorFiles ==
    [x \in {app_dir(UserBase, AppId) \o <<ExecName>>, app_dir(SystemBase, AppId) \o <<ExecName>>} |-> "old"]

ProfilePath == <<"home", ".profile">>
\* The shell configuration files ensure_path_configured looks at, in order
BashrcPath == <<"home", ".bashrc">>
ShellConfigSeq == <<<<"home", ".zshrc">>, BashrcPath, ProfilePath>>
ShellConfigs == {ShellConfigSeq[i] : i \in 1..3}

target_dir(r) == BaseDir(r.is_system) \o <<"share">>
temp_dir(r) == target_dir(r) \o <<StagingName>>
final_app_dir(r) == target_dir(r) \o <<AppId>>

\* extract_async's watch receiver before anyone dropped it
NoSnap == [files |-> [x \in {} |-> "old"], dirs |-> {}, run |-> NoRun]

NoRx == [alive |-> TRUE, dropped_at |-> 0]

\* watch::Sender::send: Err when no receiver is left
watch_send(r) == [ok |-> r.alive]

InstIdle ==
    /\ files = [x \in {} |-> "old"]
    /\ dirs = BaseDirs
    /\ files0 = files
    /\ dirs0 = dirs
    /\ run = NoRun
    /\ ipc = "idle"
    /\ epos = 0
    /\ rx = NoRx
    /\ nrun = 0
    /\ snap = NoSnap

InstInit ==
    /\ \E machine \in {"bare", "fresh", "prior", "damaged"} :
          /\ files = CASE machine = "bare" -> [x \in {} |-> "old"]
                        [] machine = "fresh" -> WriteFile([x \in {} |-> "old"], BashrcPath, "rc")
                        [] machine = "prior" -> WriteFile(PriorFiles, BashrcPath, "rc+stanza")
                        [] OTHER -> WriteFile([x \in {} |-> "old"], DesktopPath(UserBase), "desktop-bad")
          /\ dirs = CASE machine = "prior" -> PriorDirs
                       [] machine = "damaged" -> CreateDirAll(BaseDirs, applications_dir(UserBase))
                       [] OTHER -> BaseDirs
    /\ files0 = files
    /\ dirs0 = dirs
    /\ run = NoRun
    /\ ipc = "idle"
    /\ epos = 0
    /\ rx = NoRx
    /\ nrun = 0
    /\ snap = NoSnap

\* install_silent / ProgressPage::run_extraction up to the first tar entry:
\* the authorization gate for system installs, then extract_inner's
\* preparation of the staging directory
StartEffects(r) ==
    LET authorized == IF r.is_system
                      THEN IF ~is_root(r.status) THEN r.polkit = "granted" ELSE TRUE
                      ELSE TRUE
    IN  /\ run' = [r EXCEPT !.state = IF r.entry = "gui"
                                       THEN detect_install_state(files, dirs, r.meta.version)
                                       ELSE NoState]
        /\ IF ~authorized
           THEN /\ ipc' = "denied"
                /\ epos' = 0
                /\ UNCHANGED <<files, dirs>>
           ELSE /\ ipc' = "unpack"
                /\ epos' = 1
                /\ files' = RemoveTreeFiles(files, temp_dir(r))
                /\ dirs' = CreateDirAll(RemoveTreeDirs(CreateDirAll(dirs, target_dir(r)),
                                                       temp_dir(r)),
                                        temp_dir(r))
        /\ rx' = NoRx

\* The first run on the machine.  The credentials are drawn for a system
\* install, which is where they are read; PATH is looked at by
\* install_silent in user scope only.
InstallStart ==
    /\ ipc = "idle"
    /\ \E entry \in {"silent", "gui"}, is_system \in BOOLEAN, real \in Uids, euid \in Uids,
          readable \in BOOLEAN, polkit \in PolkitAnswers, path_ok \in BOOLEAN,
          icon \in {None, Some(IconName)}, tar \in Tars :
          /\ is_system \/ (real = "1000" /\ euid = "1000" /\ readable /\ polkit = "denied")
          /\ (entry = "silent" /\ ~is_system) \/ path_ok
          /\ StartEffects([entry |-> entry, is_system |-> is_system, euid |-> euid,
                           status |-> IF readable THEN UidLine(real, euid) ELSE None,
                           polkit |-> polkit, path_ok |-> path_ok,
                           meta |-> Meta("1.0.0", icon), tar |-> tar,
                           state |-> NoState])
    /\ nrun' = 1
    /\ UNCHANGED <<files0, dirs0, snap, pkgvars, unvars, progvars, toolvars>>

\* One turn of extract_inner's loop over archive.entries()
UnpackEntry ==
    /\ ipc = "unpack"
    /\ epos <= Len(run.tar)
    /\ LET e == run.tar[epos]
           target_path == PathJoin(temp_dir(run), e)
           discarded == watch_send(rx)     \* let _ = progress_tx.send(..)
       IN  IF e.kind = "bad" \/ target_path \in dirs
           THEN /\ ipc' = "failed"
                /\ UNCHANGED <<files, dirs, epos>>
           ELSE /\ dirs' = CreateDirAll(dirs, Parent(target_path))
                /\ files' = WriteFile(files, target_path, "new")
                /\ epos' = epos + 1
                /\ UNCHANGED ipc
    /\ UNCHANGED <<files0, dirs0, run, rx, nrun, snap, pkgvars, unvars, progvars, toolvars>>

\* The wizard's progress forwarder ends (its own send failed) and drops the
\* watch receiver while entries are being unpacked.  install_silent holds
\* its receiver until it returns.
DropReceiver ==
    /\ ipc = "unpack"
    /\ run.entry = "gui"
    /\ rx.alive
    /\ rx' = [alive |-> FALSE, dropped_at |-> epos]
    /\ UNCHANGED <<files, dirs, files0, dirs0, run, ipc, epos, nrun, snap, pkgvars, unvars, progvars, toolvars>>

\* extract_inner after the loop: remove any existing installation
RemoveExisting ==
    /\ ipc = "unpack"
    /\ epos > Len(run.tar)
    /\ files' = RemoveTreeFiles(files, final_app_dir(run))
    /\ dirs' = RemoveTreeDirs(dirs, final_app_dir(run))
    /\ ipc' = "rename"
    /\ UNCHANGED <<files0, dirs0, run, epos, rx, nrun, snap, pkgvars, unvars, progvars, toolvars>>

\* extract_inner: fs::rename(temp_dir, final_app_dir)
PromoteStaging ==
    /\ ipc = "rename"
    /\ files' = RenameTreeFiles(files, temp_dir(run), final_app_dir(run))
    /\ dirs' = RenameTreeDirs(dirs, temp_dir(run), final_app_dir(run))
    /\ ipc' = "post"
    /\ UNCHANGED <<files0, dirs0, run, epos, rx, nrun, snap, pkgvars, unvars, progvars, toolvars>>

\* A shell configuration file is "rc" as the user wrote it or "stanza" as
\* the installer created it, with "+stanza" for each PATH stanza appended
HasStanza(c) == c \in {"rc+stanza", "stanza", "rc+stanza+stanza", "stanza+stanza"}

AppendStanza(c) ==
    CASE c = "rc" -> "rc+stanza"
      [] c = "rc+stanza" -> "rc+stanza+stanza"
      [] c = "stanza" -> "stanza+stanza"
      [] OTHER -> c

\* The same without the look for a stanza already there
ensure_path_appending_always(fl, is_system, path_ok) ==
    IF is_system \/ path_ok THEN fl
    ELSE LET existing == {i \in 1..3 : ShellConfigSeq[i] \in DOMAIN fl}
         IN  IF existing = {} THEN WriteFile(fl, ProfilePath, "stanza")
             ELSE LET config_path == ShellConfigSeq[CHOOSE i \in existing : \A j \in existing : i <= j]
                  IN  WriteFile(fl, config_path, AppendStanza(fl[config_path]))

\* installer.rs ensure_path_configured.  path_ok: $PATH has ~/.local/bin.
ensure_path_configured(fl, is_system, path_ok) ==
    IF is_system \/ path_ok THEN fl
    ELSE LET existing == {i \in 1..3 : ShellConfigSeq[i] \in DOMAIN fl}
         IN  IF existing = {} THEN WriteFile(fl, ProfilePath, "stanza")
             ELSE LET config_path == ShellConfigSeq[CHOOSE i \in existing : \A j \in existing : i <= j]
                  IN  IF HasStanza(fl[config_path]) THEN fl
                      ELSE WriteFile(fl, config_path, AppendStanza(fl[config_path]))

\* The desktop entry create_desktop_entry writes: install_silent's, or the
\* wizard's without the uninstall action
DesktopContent(meta, silent) ==
    CASE meta.version = "1.1.0" /\ silent -> "desktop-1.1.0+uninstall"
      [] meta.version = "1.1.0" -> "desktop-1.1.0"
      [] silent -> "desktop-1.0.0+uninstall"
      [] OTHER -> "desktop-1.0.0"

\* The manifest InstallManifest::save writes, by version (installed_at is
\* the time of the run that wrote it)
ManifestContent(meta) == IF meta.version = "1.1.0" THEN "manifest-1.1.0" ELSE "manifest-1.0.0"

\* What follows a successful extraction: install_silent places the runtime
\* binary, the PATH line, the desktop entry, the bin symlink, the icon and
\* the manifest; the wizard places the desktop entry, the symlink and the icon
PlaceLaunchers ==
    /\ ipc = "post"
    /\ LET base == BaseDir(run.is_system)
           silent == run.entry = "silent"
           source_icon == app_dir(base, AppId) \o <<IconName>>
           has_icon == IsSome(run.meta.icon) /\ source_icon \in DOMAIN files
           f1 == IF silent THEN WriteFile(files, RuntimePath(base), "runtime") ELSE files
           f2 == IF silent THEN ensure_path_configured(f1, run.is_system, run.path_ok) ELSE f1
           f3 == WriteFile(f2, DesktopPath(base), DesktopContent(run.meta, silent))
           f4 == WriteFile(f3, bin_dir(base) \o <<run.meta.exec>>, "link")
           f5 == IF has_icon THEN WriteFile(f4, IconDir(base) \o <<InstalledIconName>>, "new") ELSE f4
           f6 == IF silent THEN WriteFile(f5, ManifestPath, ManifestContent(run.meta)) ELSE f5
           d1 == CreateDirAll(CreateDirAll(dirs, bin_dir(base)), applications_dir(base))
           d2 == IF has_icon THEN CreateDirAll(d1, IconDir(base)) ELSE d1
           d3 == IF silent THEN CreateDirAll(d2, Parent(ManifestPath)) ELSE d2
       IN  /\ files' = f6
           /\ dirs' = d3
    /\ ipc' = "done"
    /\ UNCHANGED <<files0, dirs0, run, epos, rx, nrun, snap, pkgvars, unvars, progvars, toolvars>>

(***************************************************************************)
(* Uninstallation: the runtime's run_uninstall / installer::uninstall and  *)
(* the builder CLI's cmd_uninstall.                                        *)
(***************************************************************************)
\* Some component of p has s in it (component names are compared whole)
HasComponent(p, s) == \E i \in 1..Len(p) : p[i] = s

\* The path string has "a/b" in it
HasPair(p, a, b) == \E i \in 1..(Len(p) - 1) : p[i] = a /\ p[i + 1] = b

\* The path string has "/a/" in it: a is a component and not the last
HasInner(p, a) == \E i \in 1..(Len(p) - 1) : p[i] = a

\* The path string has "/a/b/" in it
HasInnerPair(p, a, b) == \E i \in 1..(Len(p) - 2) : p[i] = a /\ p[i + 1] = b

\* paths::safety::is_safe_to_delete, on the path's string
is_safe_to_delete(path, app_id) ==
    IF path = <<>> \/ path = <<"home">> \/ path = <<"usr">> THEN FALSE
    ELSE IF ~HasComponent(path, app_id) THEN FALSE
    ELSE LET in_local == HasPair(path, ".local", "share")
             in_usr_share == \/ HasInnerPair(path, "usr", "share")
                             \/ \E i \in 1..(Len(path) - 3) :
                                   path[i] = "usr" /\ path[i + 1] = "local" /\ path[i + 2] = "share"
             in_opt == HasInner(path, "opt")
         IN  in_local \/ in_usr_share \/ in_opt

\* dirs::data_local_dir(): $XDG_DATA_HOME, or ~/.local/share
DataLocalDirs == {UserData, <<"home", "data">>}

\* hicolor sizes (paths::icons::SIZES) and the scalable directory
IconSizes ==
    {"16x16", "24x24", "32x32", "48x48", "64x64", "128x128", "256x256", "512x512", "scalable"}

IconFile(ext) == IF ext = "png" THEN InstalledIconName ELSE "com.ex.demo.svg"

IconPaths(base) == {icons_dir(base) \o <<sz, "apps", IconFile(ext)>> : sz \in IconSizes, ext \in {"png", "svg"}}

\* app_id.rsplit('.').next(): the name cmd_uninstall takes the symlink to have
CliExeName == "demo"

RECURSIVE RemoveFiles(_, _)
RemoveFiles(fl, ps) ==
    IF ps = {} THEN fl
    ELSE LET q == CHOOSE q \in ps : TRUE IN RemoveFiles(RemoveFile(fl, q), ps \ {q})

\* What an installation under base left behind
InstalledFiles(base) ==
    [x \in {app_dir(base, AppId) \o <<ExecName>>, DesktopPath(base), LinkPath(base),
            IconDir(base) \o <<InstalledIconName>>} |->
        IF x = app_dir(base, AppId) \o <<ExecName>> THEN "old"
        ELSE IF x = DesktopPath(base) THEN "desktop"
        ELSE IF x = LinkPath(base) THEN "link"
        ELSE "new"]

RECURSIVE InstalledAll(_, _)
InstalledAll(bases, data_local_dir) ==
    IF bases = {}
    THEN [x \in {data_local_dir \o <<"lxe", "manifests", ManifestName>>} |-> "manifest"]
    ELSE LET b == CHOOSE b \in bases : TRUE
             rest == InstalledAll(bases \ {b}, data_local_dir)
             mine == InstalledFiles(b)
         IN  [x \in (DOMAIN rest) \cup (DOMAIN mine) |->
                 IF x \in DOMAIN mine THEN mine[x] ELSE rest[x]]

NoReq == [entry |-> "", is_system |-> FALSE, data_local_dir |-> UserData, euid |-> "",
          status |-> None, polkit |-> "", yes |-> FALSE, answer |-> "", fail |-> "none",
          app_id |-> AppId]

UninstIdle ==
    /\ ureq = NoReq
    /\ upc = "idle"

\* The app directory the request is about
ReqBase(r) == IF r.is_system THEN SystemBase ELSE Parent(r.data_local_dir)
ReqAppDir(r) == app_dir(ReqBase(r), AppId)

\* A symlink is a file whose content says where it points: "link" is the
\* launcher create_bin_symlink made, pointing at the exec in the app
\* directory beside it; the others belong to other software
IsSymlink(c) == c \in {"link", "link-tool", "link-sibling"}

\* read_link: the target as written in the symlink at x
LinkTarget(x, c) ==
    CASE c = "link" -> app_dir(Parent(Parent(x)), AppId) \o <<ExecName>>
      [] c = "link-sibling" -> <<"opt", "com.ex.demo-old", "bin", "tool">>
      [] OTHER -> <<"opt", "tool", "bin", "tool">>

\* target.to_string_lossy().contains(app_id)
TargetTextContains(t, app_id) ==
    \E i \in 1..Len(t) : t[i] = app_id \/ (app_id = AppId /\ t[i] = "com.ex.demo-old")

\* Symlinks of other software in the bin directories: none, one to a tool
\* in /opt, one to another application whose directory name starts like
\* this one's, one named as the last segment of the app id
ForeignLinks ==
    {[name |-> "", content |-> ""], [name |-> "tool", content |-> "link-tool"],
     [name |-> "old", content |-> "link-sibling"], [name |-> CliExeName, content |-> "link-tool"]}

\* Which removal fails, if any
RemovalFailures == {"none", "tree", "desktop", "link", "icon"}

\* A machine where the app is installed under some of: ~/.local, the parent
\* of a relocated data directory, /usr
UninstInit ==
    /\ \E d \in DataLocalDirs, sys \in BOOLEAN, usr \in BOOLEAN, other \in ForeignLinks :
          LET bases == (IF sys THEN {SystemBase} ELSE {}) \cup (IF usr THEN {Parent(d)} ELSE {})
              inst == InstalledAll(bases, d)
              fl == IF other.name = "" THEN inst
                    ELSE WriteFile(WriteFile(inst, bin_dir(SystemBase) \o <<other.name>>, other.content),
                                   bin_dir(Parent(d)) \o <<other.name>>, other.content)
          IN  /\ files = fl
              /\ dirs = BaseDirs \cup UNION {Prefixes(Parent(x)) : x \in DOMAIN fl}
              /\ ureq = [NoReq EXCEPT !.data_local_dir = d]
    /\ files0 = files
    /\ dirs0 = dirs
    /\ run = NoRun
    /\ ipc = "idle"
    /\ epos = 0
    /\ rx = NoRx
    /\ nrun = 0
    /\ snap = NoSnap
    /\ upc = "idle"

\* lxe-runtime --uninstall APP_ID [--system]: run_uninstall, which calls
\* installer::uninstall and then deletes the manifest
run_uninstall ==
    /\ upc = "idle"
    /\ \E is_system \in BOOLEAN, real \in Uids, euid \in Uids, readable \in BOOLEAN,
          polkit \in PolkitAnswers, fail \in RemovalFailures :
          LET status == IF readable THEN UidLine(real, euid) ELSE None
              r == [ureq EXCEPT !.entry = "runtime", !.is_system = is_system, !.euid = euid,
                                !.status = status, !.polkit = polkit, !.fail = fail]
              base == ReqBase(r)
              d == app_dir(base, AppId)
              links == {x \in DOMAIN files :
                           /\ Parent(x) = bin_dir(base)
                           /\ IsSymlink(files[x])
                           /\ \/ IsPrefix(d, LinkTarget(x, files[x]))
                              \/ TargetTextContains(LinkTarget(x, files[x]), AppId)}
              gone == {DesktopPath(base)}
                      \cup (IF fail = "link" THEN {} ELSE links)
                      \cup (IF fail = "icon" THEN {} ELSE IconPaths(base))
                      \cup {r.data_local_dir \o <<"lxe", "manifests", ManifestName>>}
          IN  /\ ureq' = r
              /\ IF is_system /\ ~is_root(status) /\ polkit # "granted"
                 THEN /\ upc' = "denied"
                      /\ UNCHANGED <<files, dirs>>
                 ELSE IF Exists(files, dirs, d) /\ ~is_safe_to_delete(d, AppId)
                 THEN /\ upc' = "refused"
                      /\ UNCHANGED <<files, dirs>>
                 ELSE IF Exists(files, dirs, d) /\ fail = "tree"
                 THEN /\ upc' = "failed"
                      /\ UNCHANGED <<files, dirs>>
                 ELSE IF DesktopPath(base) \in DOMAIN files /\ fail = "desktop"
                 THEN /\ upc' = "failed"
                      /\ files' = RemoveTreeFiles(files, d)
                      /\ dirs' = RemoveTreeDirs(dirs, d)
                 ELSE /\ upc' = "done"
                      /\ files' = RemoveFiles(RemoveTreeFiles(files, d), gone \cap DOMAIN files)
                      /\ dirs' = RemoveTreeDirs(dirs, d)
    /\ UNCHANGED <<files0, dirs0, run, ipc, epos, rx, nrun, snap, pkgvars, progvars, toolvars>>

\* lxe uninstall APP_ID [--yes] [--system]: cmd_uninstall
cmd_uninstall ==
    /\ upc = "idle"
    /\ \E is_system \in BOOLEAN, yes \in BOOLEAN, answer \in {"y", "n"} :
          LET r == [ureq EXCEPT !.entry = "cli", !.is_system = is_system, !.yes = yes,
                                !.answer = IF yes THEN "" ELSE answer]
              base == ReqBase(r)
              d == app_dir(base, AppId)
              gone == {DesktopPath(base), bin_dir(base) \o <<CliExeName>>} \cup IconPaths(base)
          IN  /\ ureq' = r
              /\ IF ~Exists(files, dirs, d)
                 THEN /\ upc' = "notfound"
                      /\ UNCHANGED <<files, dirs>>
                 ELSE IF ~yes /\ answer # "y"
                 THEN /\ upc' = "cancelled"
                      /\ UNCHANGED <<files, dirs>>
                 ELSE /\ upc' = "done"
                      /\ files' = RemoveFiles(RemoveTreeFiles(files, d), gone \cap DOMAIN files)
                      /\ dirs' = RemoveTreeDirs(dirs, d)
    /\ UNCHANGED <<files0, dirs0, run, ipc, epos, rx, nrun, snap, pkgvars, progvars, toolvars>>

\* lxe-runtime --uninstall-gui APP_ID [--system]: run_uninstall_gui.  The
\* dialog's response handler calls installer::uninstall, prints its error
\* if it has one, and deletes the manifest; upc keeps what
\* installer::uninstall returned
run_uninstall_gui ==
    /\ upc = "idle"
    /\ \E is_system \in BOOLEAN, real \in Uids, euid \in Uids, readable \in BOOLEAN,
          polkit \in PolkitAnswers, fail \in RemovalFailures, response \in {"accept", "cancel"} :
          LET status == IF readable THEN UidLine(real, euid) ELSE None
              r == [ureq EXCEPT !.entry = "gui", !.is_system = is_system, !.euid = euid,
                                !.status = status, !.polkit = polkit, !.fail = fail,
                                !.answer = response]
              base == ReqBase(r)
              d == app_dir(base, AppId)
              links == {x \in DOMAIN files :
                           /\ Parent(x) = bin_dir(base)
                           /\ IsSymlink(files[x])
                           /\ \/ IsPrefix(d, LinkTarget(x, files[x]))
                              \/ TargetTextContains(LinkTarget(x, files[x]), AppId)}
              manifest == {r.data_local_dir \o <<"lxe", "manifests", ManifestName>>}
              gone == {DesktopPath(base)}
                      \cup (IF fail = "link" THEN {} ELSE links)
                      \cup (IF fail = "icon" THEN {} ELSE IconPaths(base))
                      \cup manifest
          IN  /\ ureq' = r
              /\ IF response = "cancel"
                 THEN /\ upc' = "cancelled"
                      /\ UNCHANGED <<files, dirs>>
                 ELSE IF is_system /\ ~is_root(status) /\ polkit # "granted"
                 THEN /\ upc' = "denied"
                      /\ files' = RemoveFiles(files, manifest \cap DOMAIN files)
                      /\ UNCHANGED dirs
                 ELSE IF Exists(files, dirs, d) /\ ~is_safe_to_delete(d, AppId)
                 THEN /\ upc' = "refused"
                      /\ files' = RemoveFiles(files, manifest \cap DOMAIN files)
                      /\ UNCHANGED dirs
                 ELSE IF Exists(files, dirs, d) /\ fail = "tree"
                 THEN /\ upc' = "failed"
                      /\ files' = RemoveFiles(files, manifest \cap DOMAIN files)
                      /\ UNCHANGED dirs
                 ELSE IF DesktopPath(base) \in DOMAIN files /\ fail = "desktop"
                 THEN /\ upc' = "failed"
                      /\ files' = RemoveFiles(RemoveTreeFiles(files, d),
                                              manifest \cap DOMAIN files)
                      /\ dirs' = RemoveTreeDirs(dirs, d)
                 ELSE /\ upc' = "done"
                      /\ files' = RemoveFiles(RemoveTreeFiles(files, d), gone \cap DOMAIN files)
                      /\ dirs' = RemoveTreeDirs(dirs, d)
    /\ UNCHANGED <<files0, dirs0, run, ipc, epos, rx, nrun, snap, pkgvars, progvars, toolvars>>

UninstGuiNext == run_uninstall \/ run_uninstall_gui

UninstNext == run_uninstall \/ cmd_uninstall

\* lxe-runtime --uninstall run by the same user, in the same scope, once the
\* installation run has finished, every removal succeeding
UninstallInstalled ==
    /\ ipc = "done"
    /\ run_uninstall
    /\ ureq'.is_system = run.is_system
    /\ ureq'.euid = run.euid
    /\ ureq'.status = run.status
    /\ ureq'.polkit = run.polkit
    /\ ureq'.fail = "none"

\* The installer run again on the finished installation by the same user in
\* the same scope and environment, as the wizard or silently: the same
\* package once more, or version 1.1.0 of the application with its own files
\* and icon
UpgradeTars == {t \in Tars : \A i \in 1..Len(t) : t[i] \in {FileEntry(FALSE, <<ExecName>>),
                                                          FileEntry(FALSE, <<IconName>>)}}

\* The first run of an installation that is later run again: a package
\* whose archive holds the application's files, installed by the user for
\* themself or by root for the system
InstallFirst ==
    /\ ipc = "idle"
    /\ \E entry \in {"silent", "gui"}, is_system \in BOOLEAN, path_ok \in BOOLEAN,
          icon \in {None, Some(IconName)}, tar \in UpgradeTars :
          LET uid == IF is_system THEN "0" ELSE "1000"
          IN  /\ (entry = "silent" /\ ~is_system) \/ path_ok
              /\ StartEffects([entry |-> entry, is_system |-> is_system, euid |-> uid,
                               status |-> UidLine(uid, uid), polkit |-> "denied",
                               path_ok |-> path_ok, meta |-> Meta("1.0.0", icon), tar |-> tar,
                           state |-> NoState])
    /\ nrun' = 1
    /\ UNCHANGED <<files0, dirs0, snap, pkgvars, unvars, progvars, toolvars>>

InstallAgain ==
    /\ ipc = "done"
    /\ upc = "idle"
    /\ nrun = 1
    /\ \E upgrade \in BOOLEAN, icon \in {None, Some(IconName)}, tar \in UpgradeTars,
          entry \in {"silent", "gui"} :
          /\ upgrade \/ (icon = run.meta.icon /\ tar = run.tar)
          /\ StartEffects([run EXCEPT !.meta = Meta(IF upgrade THEN "1.1.0" ELSE "1.0.0", icon),
                                      !.tar = tar, !.entry = entry])
    /\ nrun' = 2
    /\ snap' = [files |-> files, dirs |-> dirs, run |-> run]
    /\ UNCHANGED <<files0, dirs0, pkgvars, unvars, progvars, toolvars>>

InstNext == InstallStart \/ UnpackEntry \/ DropReceiver \/ RemoveExisting \/ PromoteStaging \/ PlaceLaunchers

(***************************************************************************)
(* ProgressPage::run_extraction: the worker thread (its main task, the     *)
(* extraction task and the progress forwarder) and the GTK main thread     *)
(* polling an mpsc channel.                                                *)
(***************************************************************************)
\* ProgressMessage
MsgUpdate(n, complete) == [type |-> "Update", n |-> n, complete |-> complete]
MsgInstalling == [type |-> "InstallingDesktopEntry", n |-> 0, complete |-> FALSE]
MsgComplete == [type |-> "Complete", n |-> 0, complete |-> FALSE]
MsgError == [type |-> "Error", n |-> 0, complete |-> FALSE]

\* The same with Error not ending the polling
IsComplete(msg) == msg.type = "Complete"

\* The messages on which the timeout closure sets should_continue = false
IsTerminal(msg) == msg.type \in {"Complete", "Error"}

\* mpsc::Sender::send with the other end put at the head of the queue
mpsc_send_front(q, msg) == <<msg>> \o q

\* mpsc::Sender::send: the queue is first in, first out
mpsc_send(q, msg) == Append(q, msg)

NoProgRun == [is_system |-> FALSE, authorized |-> TRUE, rt_ok |-> TRUE, entries |-> 0,
              fail_at |-> 0, desktop_ok |-> TRUE]

NoWatch == [n |-> 0, complete |-> FALSE, unseen |-> FALSE, open |-> FALSE]

ProgIdle ==
    /\ prun = NoProgRun
    /\ wpc = "idle"
    /\ xpc = "idle"
    /\ xcount = 0
    /\ watch = NoWatch
    /\ fpc = "idle"
    /\ chan = <<>>
    /\ sent = <<>>
    /\ handled = <<>>
    /\ signals = 0
    /\ timer = FALSE

\* run_extraction is called: the worker thread is spawned and the polling
\* timeout installed.  entries: tar entries of the payload; fail_at: the
\* entry whose unpacking fails (0: none).
StartRun ==
    /\ wpc = "idle"
    /\ \E is_system \in BOOLEAN, authorized \in BOOLEAN, rt_ok \in BOOLEAN,
          entries \in 1..MaxEntries, desktop_ok \in BOOLEAN :
          \E fail_at \in 0..entries :
             prun' = [is_system |-> is_system, authorized |-> authorized, rt_ok |-> rt_ok,
                      entries |-> entries, fail_at |-> fail_at, desktop_ok |-> desktop_ok]
    /\ wpc' = "spawned"
    /\ timer' = TRUE
    /\ UNCHANGED <<xpc, xcount, watch, fpc, chan, sent, handled, signals,
                 pkgvars, instvars, unvars, toolvars>>

\* The worker up to extract_async: the Tokio runtime, the polkit gate
WorkerBegin ==
    /\ wpc = "spawned"
    /\ IF ~prun.rt_ok \/ (prun.is_system /\ ~prun.authorized)
       THEN /\ chan' = mpsc_send(chan, MsgError)
            /\ sent' = Append(sent, MsgError)
            /\ wpc' = "end"
            /\ UNCHANGED <<xpc, watch, fpc>>
       ELSE /\ wpc' = "await"
            /\ xpc' = "run"
            /\ fpc' = "run"
            /\ watch' = [n |-> 0, complete |-> FALSE, unseen |-> FALSE, open |-> TRUE]
            /\ UNCHANGED <<chan, sent>>
    /\ UNCHANGED <<prun, xcount, handled, signals, timer,
                 pkgvars, instvars, unvars, toolvars>>

\* extract_inner: one progress_tx.send; two per entry, then the one marked
\* complete.  The entry fail_at fails between its two sends.
ExtractEmit ==
    /\ xpc = "run"
    /\ LET failing == prun.fail_at # 0 /\ xcount = 2 * prun.fail_at - 1
           finished == xcount = 2 * prun.entries
       IN  IF failing
           THEN /\ xpc' = "err"
                /\ watch' = [watch EXCEPT !.open = FALSE]
                /\ UNCHANGED xcount
           ELSE /\ xcount' = xcount + 1
                /\ watch' = [n |-> xcount + 1, complete |-> finished, unseen |-> TRUE,
                             open |-> ~finished]
                /\ xpc' = IF finished THEN "ok" ELSE "run"
    /\ UNCHANGED <<prun, wpc, fpc, chan, sent, handled, signals, timer,
                 pkgvars, instvars, unvars, toolvars>>

\* The forwarder: rx.changed(), rx.borrow(), sender_clone.send(Update)
Forward ==
    /\ fpc = "run"
    /\ \/ /\ watch.unseen
          /\ watch' = [watch EXCEPT !.unseen = FALSE]
          /\ IF timer
             THEN /\ chan' = mpsc_send(chan, MsgUpdate(watch.n, watch.complete))
                  /\ sent' = Append(sent, MsgUpdate(watch.n, watch.complete))
                  /\ fpc' = IF watch.complete THEN "done" ELSE "run"
             ELSE /\ fpc' = "done"
                  /\ UNCHANGED <<chan, sent>>
       \/ /\ ~watch.open
          /\ fpc' = "done"
          /\ UNCHANGED <<watch, chan, sent>>
    /\ UNCHANGED <<prun, wpc, xpc, xcount, handled, signals, timer,
                 pkgvars, instvars, unvars, toolvars>>

\* The worker after handle.await and progress_forwarder.await: on success
\* InstallingDesktopEntry is sent first
WorkerResult ==
    /\ wpc = "await"
    /\ xpc \in {"ok", "err"}
    /\ fpc = "done"
    /\ LET msg == IF xpc = "ok" THEN MsgInstalling ELSE MsgError
       IN  /\ chan' = IF timer THEN mpsc_send(chan, msg) ELSE chan
           /\ sent' = Append(sent, msg)
    /\ wpc' = IF xpc = "ok" THEN "placing" ELSE "end"
    /\ UNCHANGED <<prun, xpc, xcount, watch, fpc, handled, signals, timer,
                 pkgvars, instvars, unvars, toolvars>>

\* The worker after create_desktop_entry, create_bin_symlink, install_icon
WorkerPlaced ==
    /\ wpc = "placing"
    /\ LET msg == IF prun.desktop_ok THEN MsgComplete ELSE MsgError
       IN  /\ chan' = IF timer THEN mpsc_send(chan, msg) ELSE chan
           /\ sent' = Append(sent, msg)
    /\ wpc' = "end"
    /\ UNCHANGED <<prun, xpc, xcount, watch, fpc, handled, signals, timer,
                 pkgvars, instvars, unvars, toolvars>>

\* Index of the first terminal message of q, or 0
FirstTerminal(q) ==
    IF \E i \in 1..Len(q) : IsTerminal(q[i])
    THEN CHOOSE i \in 1..Len(q) : IsTerminal(q[i]) /\ \A j \in 1..(i - 1) : ~IsTerminal(q[j])
    ELSE 0

\* One firing of the glib timeout: try_recv until the channel is empty or a
\* terminal message has been handled
Poll ==
    /\ timer
    /\ LET t == FirstTerminal(chan)
           taken == IF t = 0 THEN chan ELSE SubSeq(chan, 1, t)
       IN  /\ handled' = handled \o taken
           /\ IF t = 0
              THEN /\ chan' = <<>>
                   /\ UNCHANGED <<signals, timer>>
              ELSE /\ chan' = <<>>
                   /\ signals' = signals + 1
                   /\ timer' = FALSE
    /\ UNCHANGED <<prun, wpc, xpc, xcount, watch, fpc, sent,
                 pkgvars, instvars, unvars, toolvars>>

ProgNext ==
    StartRun \/ WorkerBegin \/ ExtractEmit \/ Forward \/ WorkerResult \/ WorkerPlaced \/ Poll

(***************************************************************************)
(* Specifications.                                                         *)
(***************************************************************************)
(***************************************************************************)
(* lxe key generate: cmd_key_generate.  fs::write opens the file with      *)
(* O_CREAT and mode 0666 (less the umask), then writes; set_permissions    *)
(* comes after.  A mode is its three octal digits.                         *)
(***************************************************************************)
\* 6 & ~m for one octal digit
CreateDigit(m) ==
    (IF (m \div 4) % 2 = 0 THEN 4 ELSE 0) + (IF (m \div 2) % 2 = 0 THEN 2 ELSE 0)

\* The mode open(2) gives a file created with 0666 under umask
CreateMode(umask) == <<CreateDigit(umask[1]), CreateDigit(umask[2]), CreateDigit(umask[3])>>

\* The umasks of the shell that runs the command: any group and other bits
Umasks == {<<0, g, o>> : g \in 0..7, o \in 0..7}

\* cmd_key_generate up to the creation of the file by fs::write; present:
\* the output path is taken already
KeyGenCreate ==
    /\ kpc.pc = "idle"
    /\ \E present \in BOOLEAN, umask \in Umasks, seed \in Seeds :
          IF present
          THEN /\ kpc' = [pc |-> "exists_error", umask |-> umask, seed |-> 0]
               /\ kfile' = [exists |-> TRUE, mode |-> CreateMode(umask), data |-> "other"]
          ELSE /\ kpc' = [pc |-> "created", umask |-> umask, seed |-> seed]
               /\ kfile' = [exists |-> TRUE, mode |-> CreateMode(umask), data |-> ""]
    /\ UNCHANGED <<cmp, procs, post, pkgvars, instvars, unvars, progvars>>

\* fs::write, the rest: write_all of the base64 of seed and public key
KeyGenWrite ==
    /\ kpc.pc = "created"
    /\ kfile' = [kfile EXCEPT !.data = "key"]
    /\ kpc' = [kpc EXCEPT !.pc = "written"]
    /\ UNCHANGED <<cmp, procs, post, pkgvars, instvars, unvars, progvars>>

\* set_permissions(output, 0o600), which may fail
KeyGenSetPermissions ==
    /\ kpc.pc = "written"
    /\ \E ok \in BOOLEAN :
          IF ok
          THEN /\ kfile' = [kfile EXCEPT !.mode = <<6, 0, 0>>]
               /\ kpc' = [kpc EXCEPT !.pc = "done"]
          ELSE /\ kpc' = [kpc EXCEPT !.pc = "chmod_error"]
               /\ UNCHANGED kfile
    /\ UNCHANGED <<cmp, procs, post, pkgvars, instvars, unvars, progvars>>

KeyNext == KeyGenCreate \/ KeyGenWrite \/ KeyGenSetPermissions

(***************************************************************************)
(* Two installer processes at work in the same target directory, each      *)
(* running extract_inner for its own package.  Every file system call is   *)
(* a step; the processes share files and dirs.                             *)
(***************************************************************************)
OtherAppId == "org.ex.other"

ProcIds == {1, 2}

ProcAppId(p) == IF p = 1 THEN AppId ELSE OtherAppId

\* extract_inner's target_dir, temp_dir and final_app_dir of a process
proc_target_dir == UserData
proc_temp_dir == proc_target_dir \o <<StagingName>>
proc_final_app_dir(p) == proc_target_dir \o <<procs[p].app_id>>

\* The bytes unpacked from a package are tagged with its app_id
ProcTree(p) ==
    [x \in {proc_final_app_dir(p) \o procs[p].tar[i].comps : i \in 1..Len(procs[p].tar)}
        |-> procs[p].app_id]

\* Both installers are launched
StartBoth ==
    /\ procs = NoProcs
    /\ ipc = "idle"
    /\ \E t1 \in UpgradeTars, t2 \in UpgradeTars :
          procs' = [p \in ProcIds |->
                       [app_id |-> ProcAppId(p), tar |-> IF p = 1 THEN t1 ELSE t2,
                        pc |-> "setup", epos |-> 0]]
    /\ UNCHANGED <<keyvars, cmp, post, pkgvars, instvars, unvars, progvars>>

\* extract_inner: create_dir_all(target_dir); remove_dir_all(temp_dir) if it
\* exists; create_dir_all(temp_dir)
ProcSetup(p) ==
    /\ procs # NoProcs
    /\ procs[p].pc = "setup"
    /\ files' = RemoveTreeFiles(files, proc_temp_dir)
    /\ dirs' = CreateDirAll(RemoveTreeDirs(CreateDirAll(dirs, proc_target_dir), proc_temp_dir),
                            proc_temp_dir)
    /\ procs' = [procs EXCEPT ![p].pc = "unpack", ![p].epos = 1]
    /\ UNCHANGED <<files0, dirs0, run, ipc, epos, rx, nrun, snap,
                   keyvars, cmp, post, pkgvars, unvars, progvars>>

\* One turn of extract_inner's loop: create_dir_all(parent), entry.unpack
ProcUnpack(p) ==
    /\ procs # NoProcs
    /\ procs[p].pc = "unpack"
    /\ procs[p].epos <= Len(procs[p].tar)
    /\ LET e == procs[p].tar[procs[p].epos]
           target_path == PathJoin(proc_temp_dir, e)
       IN  IF e.kind = "bad" \/ target_path \in dirs
           THEN /\ procs' = [procs EXCEPT ![p].pc = "failed"]
                /\ UNCHANGED <<files, dirs>>
           ELSE /\ dirs' = CreateDirAll(dirs, Parent(target_path))
                /\ files' = WriteFile(files, target_path, procs[p].app_id)
                /\ procs' = [procs EXCEPT ![p].epos = @ + 1]
    /\ UNCHANGED <<files0, dirs0, run, ipc, epos, rx, nrun, snap,
                   keyvars, cmp, post, pkgvars, unvars, progvars>>

\* extract_inner after the loop: remove_dir_all(final_app_dir) if it exists
ProcRemoveExisting(p) ==
    /\ procs # NoProcs
    /\ procs[p].pc = "unpack"
    /\ procs[p].epos > Len(procs[p].tar)
    /\ files' = RemoveTreeFiles(files, proc_final_app_dir(p))
    /\ dirs' = RemoveTreeDirs(dirs, proc_final_app_dir(p))
    /\ procs' = [procs EXCEPT ![p].pc = "rename"]
    /\ UNCHANGED <<files0, dirs0, run, ipc, epos, rx, nrun, snap,
                   keyvars, cmp, post, pkgvars, unvars, progvars>>

\* extract_inner: fs::rename(temp_dir, final_app_dir); ENOENT when the
\* staging directory is not there
ProcPromote(p) ==
    /\ procs # NoProcs
    /\ procs[p].pc = "rename"
    /\ IF proc_temp_dir \in dirs
       THEN /\ files' = RenameTreeFiles(files, proc_temp_dir, proc_final_app_dir(p))
            /\ dirs' = RenameTreeDirs(dirs, proc_temp_dir, proc_final_app_dir(p))
            /\ procs' = [procs EXCEPT ![p].pc = "done"]
       ELSE /\ procs' = [procs EXCEPT ![p].pc = "failed"]
            /\ UNCHANGED <<files, dirs>>
    /\ UNCHANGED <<files0, dirs0, run, ipc, epos, rx, nrun, snap,
                   keyvars, cmp, post, pkgvars, unvars, progvars>>

FirstSetup == ProcSetup(1)
SecondSetup == ProcSetup(2)
FirstUnpack == ProcUnpack(1)
SecondUnpack == ProcUnpack(2)
FirstRemoveExisting == ProcRemoveExisting(1)
SecondRemoveExisting == ProcRemoveExisting(2)
FirstPromote == ProcPromote(1)
SecondPromote == ProcPromote(2)

ConcurrentNext ==
    \/ StartBoth
    \/ FirstSetup
    \/ SecondSetup
    \/ FirstUnpack
    \/ SecondUnpack
    \/ FirstRemoveExisting
    \/ SecondRemoveExisting
    \/ FirstPromote
    \/ SecondPromote

(***************************************************************************)
(* lxe-runtime installer.rs: install_silent after the extraction, one step *)
(* per call.  Each call may fail on its file system operation, and `?`     *)
(* returns from install_silent at once.                                    *)
(***************************************************************************)
\* The list without the add_file call for the runtime binary
ManifestFilesWithoutRuntime(app_path, desktop_path, symlink_path, runtime_path, icon_path) ==
    <<app_path, desktop_path, symlink_path>> \o icon_path

\* InstallManifest::new followed by install_silent's add_file calls
ManifestFiles(app_path, desktop_path, symlink_path, runtime_path, icon_path) ==
    <<app_path, desktop_path, symlink_path, runtime_path>> \o icon_path

\* lxe-runtime --silent on a machine of InstInit
SilentStart ==
    /\ ipc = "idle"
    /\ post = NoPost
    /\ \E is_system \in BOOLEAN, path_ok \in BOOLEAN, icon \in {None, Some(IconName)},
          tar \in Tars :
          LET uid == IF is_system THEN "0" ELSE "1000"
          IN  /\ ~is_system \/ path_ok
              /\ StartEffects([entry |-> "silent", is_system |-> is_system, euid |-> uid,
                               status |-> UidLine(uid, uid), polkit |-> "denied",
                               path_ok |-> path_ok, meta |-> Meta("1.0.0", icon), tar |-> tar,
                               state |-> NoState])
    /\ nrun' = 1
    /\ UNCHANGED <<files0, dirs0, snap, pkgvars, unvars, progvars, toolvars>>

\* handle.await?? returned Ok
Extracted ==
    /\ ipc = "post"
    /\ post.pc = "idle"
    /\ post' = [post EXCEPT !.pc = "runtime"]
    /\ UNCHANGED <<keyvars, cmp, procs, pkgvars, instvars, unvars, progvars>>

\* install_runtime_binary(&config).await?
InstallRuntimeBinary ==
    /\ post.pc = "runtime"
    /\ LET base == BaseDir(run.is_system)
       IN  \E ok \in BOOLEAN :
              /\ dirs' = CreateDirAll(dirs, bin_dir(base))
              /\ IF ok
                 THEN /\ files' = WriteFile(files, RuntimePath(base), "runtime")
                      /\ post' = [post EXCEPT !.pc = "path", !.ok = @ \cup {"runtime"},
                                              !.runtime_path = Some(RuntimePath(base))]
                      /\ UNCHANGED ipc
                 ELSE /\ post' = [post EXCEPT !.pc = "failed"]
                      /\ ipc' = "failed"
                      /\ UNCHANGED files
    /\ UNCHANGED <<files0, dirs0, run, epos, rx, nrun, snap,
                   keyvars, cmp, procs, pkgvars, unvars, progvars>>

\* if let Err(e) = ensure_path_configured(&config).await { warn }
ConfigurePath ==
    /\ post.pc = "path"
    /\ \E ok \in BOOLEAN :
          /\ files' = IF ok THEN ensure_path_configured(files, run.is_system, run.path_ok)
                      ELSE files
          /\ post' = [post EXCEPT !.pc = "desktop",
                                  !.ok = IF ok THEN @ \cup {"path"} ELSE @]
    /\ UNCHANGED <<dirs, files0, dirs0, run, ipc, epos, rx, nrun, snap,
                   keyvars, cmp, procs, pkgvars, unvars, progvars>>

\* create_desktop_entry(&payload.metadata, &config, &runtime_path).await?
CreateDesktopEntry ==
    /\ post.pc = "desktop"
    /\ LET base == BaseDir(run.is_system)
       IN  \E ok \in BOOLEAN :
              /\ dirs' = CreateDirAll(dirs, applications_dir(base))
              /\ IF ok
                 THEN /\ files' = WriteFile(files, DesktopPath(base),
                                            DesktopContent(run.meta, TRUE))
                      /\ post' = [post EXCEPT !.pc = "symlink", !.ok = @ \cup {"desktop"},
                                              !.desktop_path = Some(DesktopPath(base))]
                      /\ UNCHANGED ipc
                 ELSE /\ post' = [post EXCEPT !.pc = "failed"]
                      /\ ipc' = "failed"
                      /\ UNCHANGED files
    /\ UNCHANGED <<files0, dirs0, run, epos, rx, nrun, snap,
                   keyvars, cmp, procs, pkgvars, unvars, progvars>>

\* create_bin_symlink(&payload.metadata, &config).await?: the old link is
\* removed (.ok()) before the new one is made
CreateBinSymlink ==
    /\ post.pc = "symlink"
    /\ LET base == BaseDir(run.is_system)
           link_path == bin_dir(base) \o <<run.meta.exec>>
       IN  \E ok \in BOOLEAN :
              /\ dirs' = CreateDirAll(dirs, bin_dir(base))
              /\ IF ok
                 THEN /\ files' = WriteFile(files, link_path, "link")
                      /\ post' = [post EXCEPT !.pc = "icon", !.ok = @ \cup {"symlink"},
                                              !.symlink_path = Some(link_path)]
                      /\ UNCHANGED ipc
                 ELSE /\ files' = RemoveFile(files, link_path)
                      /\ post' = [post EXCEPT !.pc = "failed"]
                      /\ ipc' = "failed"
    /\ UNCHANGED <<files0, dirs0, run, epos, rx, nrun, snap,
                   keyvars, cmp, procs, pkgvars, unvars, progvars>>

\* if payload.metadata.icon.is_some() { install_icon(..).await? } else { None }
InstallIcon ==
    /\ post.pc = "icon"
    /\ LET base == BaseDir(run.is_system)
           source_icon == app_dir(base, AppId) \o <<IconName>>
           target_icon == IconDir(base) \o <<InstalledIconName>>
       IN  IF ~IsSome(run.meta.icon) \/ source_icon \notin DOMAIN files
           THEN /\ post' = [post EXCEPT !.pc = "manifest", !.ok = @ \cup {"icon"}]
                /\ UNCHANGED <<files, dirs, ipc>>
           ELSE \E ok \in BOOLEAN :
                   /\ dirs' = CreateDirAll(dirs, IconDir(base))
                   /\ IF ok
                      THEN /\ files' = WriteFile(files, target_icon, "new")
                           /\ post' = [post EXCEPT !.pc = "manifest", !.ok = @ \cup {"icon"},
                                                   !.icon_path = Some(target_icon)]
                           /\ UNCHANGED ipc
                      ELSE /\ post' = [post EXCEPT !.pc = "failed"]
                           /\ ipc' = "failed"
                           /\ UNCHANGED files
    /\ UNCHANGED <<files0, dirs0, run, epos, rx, nrun, snap,
                   keyvars, cmp, procs, pkgvars, unvars, progvars>>

\* InstallManifest::new, add_file x 4 or 5, manifest.save().await?
SaveManifest ==
    /\ post.pc = "manifest"
    /\ LET base == BaseDir(run.is_system)
           manifest_files == ManifestFiles(app_dir(base, AppId), post.desktop_path[1],
                                           post.symlink_path[1], post.runtime_path[1],
                                           post.icon_path)
       IN  \E ok \in BOOLEAN :
              /\ dirs' = CreateDirAll(dirs, Parent(ManifestPath))
              /\ IF ok
                 THEN /\ files' = WriteFile(files, ManifestPath, ManifestContent(run.meta))
                      /\ post' = [post EXCEPT !.pc = "saved", !.saved = Some(manifest_files)]
                      /\ ipc' = "done"
                 ELSE /\ post' = [post EXCEPT !.pc = "failed"]
                      /\ ipc' = "failed"
                      /\ UNCHANGED files
    /\ UNCHANGED <<files0, dirs0, run, epos, rx, nrun, snap,
                   keyvars, cmp, procs, pkgvars, unvars, progvars>>

SilentNext ==
    \/ SilentStart
    \/ UnpackEntry
    \/ RemoveExisting
    \/ PromoteStaging
    \/ Extracted
    \/ InstallRuntimeBinary
    \/ ConfigurePath
    \/ CreateDesktopEntry
    \/ CreateBinSymlink
    \/ InstallIcon
    \/ SaveManifest

(***************************************************************************)
(* Uninstalling by an app_id given on the command line.  The names the     *)
(* code derives from app_id with format! and rsplit are tabulated for the  *)
(* ids tried; every removal the code attempts succeeds.                    *)
(***************************************************************************)
\* The app_id argument: an installed application, another one, the empty
\* string, the name of a directory all applications share
AppIdInputs == {AppId, OtherAppId, "", "applications"}

\* format!("{}.desktop", app_id), format!("{}.{}", app_id, ext),
\* format!("{}.json", app_id), app_id.rsplit('.').next()
AppNames(a) ==
    CASE a = AppId ->
             [desktop |-> DesktopName, png |-> InstalledIconName, svg |-> "com.ex.demo.svg",
              manifest |-> ManifestName, exe |-> CliExeName]
      [] a = OtherAppId ->
             [desktop |-> "org.ex.other.desktop", png |-> "org.ex.other.png",
              svg |-> "org.ex.other.svg", manifest |-> "org.ex.other.json", exe |-> "other"]
      [] a = "" ->
             [desktop |-> ".desktop", png |-> ".png", svg |-> ".svg", manifest |-> ".json",
              exe |-> ""]
      [] OTHER ->
             [desktop |-> "applications.desktop", png |-> "applications.png",
              svg |-> "applications.svg", manifest |-> "applications.json",
              exe |-> "applications"]

\* The file or directory the kernel finds at a path: empty components (a
\* trailing slash, as PathBuf::join("") leaves) name nothing
Locate(p) == Resolve(<<>>, SelectSeq(p, LAMBDA c : c # ""))

IconPathsOf(base, a) ==
    {icons_dir(base) \o <<sz, "apps", n>> : sz \in IconSizes,
                                           n \in {AppNames(a).png, AppNames(a).svg}}

\* What a second application, org.ex.other, installed under base
OtherInstalled(base) ==
    [x \in {app_dir(base, OtherAppId) \o <<ExecName>>,
            applications_dir(base) \o <<AppNames(OtherAppId).desktop>>} |->
        IF x = app_dir(base, OtherAppId) \o <<ExecName>> THEN "old" ELSE "desktop"]

Overlay(f, g) == [x \in (DOMAIN f) \cup (DOMAIN g) |-> IF x \in DOMAIN g THEN g[x] ELSE f[x]]

\* A machine where com.ex.demo may be installed and org.ex.other is
\* installed, user-local and system-wide
UninstAnyInit ==
    /\ \E d \in DataLocalDirs, sys \in BOOLEAN, usr \in BOOLEAN :
          LET bases == (IF sys THEN {SystemBase} ELSE {}) \cup (IF usr THEN {Parent(d)} ELSE {})
              fl == Overlay(Overlay(InstalledAll(bases, d), OtherInstalled(SystemBase)),
                            OtherInstalled(Parent(d)))
          IN  /\ files = fl
              /\ dirs = BaseDirs \cup UNION {Prefixes(Parent(x)) : x \in DOMAIN fl}
              /\ ureq = [NoReq EXCEPT !.data_local_dir = d]
    /\ files0 = files
    /\ dirs0 = dirs
    /\ run = NoRun
    /\ ipc = "idle"
    /\ epos = 0
    /\ rx = NoRx
    /\ nrun = 0
    /\ snap = NoSnap
    /\ upc = "idle"

\* lxe-runtime --uninstall APP_ID [--system]: run_uninstall with the
\* app_id as given
run_uninstall_app_id ==
    /\ upc = "idle"
    /\ \E a \in AppIdInputs, is_system \in BOOLEAN, euid \in Uids, polkit \in PolkitAnswers :
          LET status == UidLine(euid, euid)
              r == [ureq EXCEPT !.entry = "runtime", !.is_system = is_system, !.euid = euid,
                                !.status = status, !.polkit = polkit, !.app_id = a]
              base == ReqBase(r)
              d == app_dir(base, a)
              links == {x \in DOMAIN files :
                           /\ Parent(x) = bin_dir(base)
                           /\ IsSymlink(files[x])
                           /\ \/ IsPrefix(Locate(d), LinkTarget(x, files[x]))
                              \/ a = ""
                              \/ TargetTextContains(LinkTarget(x, files[x]), a)}
              gone == {applications_dir(base) \o <<AppNames(a).desktop>>}
                      \cup links \cup IconPathsOf(base, a)
                      \cup {r.data_local_dir \o <<"lxe", "manifests", AppNames(a).manifest>>}
              f1 == RemoveTreeFiles(files, Locate(d))
          IN  /\ ureq' = r
              /\ IF is_system /\ ~is_root(status) /\ polkit # "granted"
                 THEN /\ upc' = "denied"
                      /\ UNCHANGED <<files, dirs>>
                 ELSE IF Exists(files, dirs, Locate(d)) /\ ~is_safe_to_delete(d, a)
                 THEN /\ upc' = "refused"
                      /\ UNCHANGED <<files, dirs>>
                 ELSE /\ upc' = "done"
                      /\ files' = RemoveFiles(f1, gone \cap DOMAIN f1)
                      /\ dirs' = RemoveTreeDirs(dirs, Locate(d))
    /\ UNCHANGED <<files0, dirs0, run, ipc, epos, rx, nrun, snap, pkgvars, progvars, toolvars>>

\* lxe uninstall APP_ID [--yes] [--system]: cmd_uninstall with the app_id as
\* given
cmd_uninstall_app_id ==
    /\ upc = "idle"
    /\ \E a \in AppIdInputs, is_system \in BOOLEAN, yes \in BOOLEAN, answer \in {"y", "n"} :
          LET r == [ureq EXCEPT !.entry = "cli", !.is_system = is_system, !.yes = yes,
                                !.answer = IF yes THEN "" ELSE answer, !.app_id = a]
              base == ReqBase(r)
              d == app_dir(base, a)
              gone == {applications_dir(base) \o <<AppNames(a).desktop>>,
                       bin_dir(base) \o <<AppNames(a).exe>>} \cup IconPathsOf(base, a)
              f1 == RemoveTreeFiles(files, Locate(d))
          IN  /\ ureq' = r
              /\ IF ~Exists(files, dirs, Locate(d))
                 THEN /\ upc' = "notfound"
                      /\ UNCHANGED <<files, dirs>>
                 ELSE IF ~yes /\ answer # "y"
                 THEN /\ upc' = "cancelled"
                      /\ UNCHANGED <<files, dirs>>
                 ELSE /\ upc' = "done"
                      /\ files' = RemoveFiles(f1, gone \cap DOMAIN f1)
                      /\ dirs' = RemoveTreeDirs(dirs, Locate(d))
    /\ UNCHANGED <<files0, dirs0, run, ipc, epos, rx, nrun, snap, pkgvars, progvars, toolvars>>

UninstAnyNext == run_uninstall_app_id \/ cmd_uninstall_app_id

Init == PkgInit /\ InstIdle /\ UninstIdle /\ ProgIdle /\ ToolIdle

\* Building, tampering with, launching and verifying a package
SpecRead == Init /\ [][ReadNext]_vars

CompareNext == Compare

SpecCompare == Init /\ [][CompareNext]_vars

SpecKey == Init /\ [][KeyNext]_vars

SpecConcurrent == Init /\ [][ConcurrentNext]_vars

SpecPkg == Init /\ [][PkgNext]_vars

\* One installation run on a machine with or without an earlier installation
InitInstall == PkgInit /\ InstInit /\ UninstIdle /\ ProgIdle /\ ToolIdle

SpecInstall == InitInstall /\ [][InstNext]_vars

\* One uninstall request on a machine where the app may be installed
InitUninstall == PkgInit /\ UninstInit /\ ProgIdle /\ ToolIdle

SpecUninstall == InitUninstall /\ [][UninstNext]_vars

\* One uninstall request to lxe-runtime, from the command line or through
\* its confirmation dialog
SpecUninstallGui == InitUninstall /\ [][UninstGuiNext]_vars

\* One uninstall request for an app_id of the caller's choosing
InitUninstallAny == PkgInit /\ UninstAnyInit /\ ProgIdle /\ ToolIdle

SpecUninstallAny == InitUninstallAny /\ [][UninstAnyNext]_vars

\* An installation run followed by an uninstall request
LifeNext ==
    \/ InstallStart \/ UnpackEntry \/ DropReceiver \/ RemoveExisting \/ PromoteStaging
    \/ PlaceLaunchers \/ UninstallInstalled

SpecLifecycle == InitInstall /\ [][LifeNext]_vars

\* An installation and the installer run on it a second time
RerunNext ==
    \/ InstallFirst \/ InstallAgain \/ UnpackEntry \/ RemoveExisting \/ PromoteStaging
    \/ PlaceLaunchers

SpecRerun == InitInstall /\ [][RerunNext]_vars

\* lxe-runtime --silent, its steps after the extraction taken one by one
SpecSilent == InitInstall /\ [][SilentNext]_vars

\* One run of the wizard's progress page
SpecProgress == Init /\ [][ProgNext]_vars

\* The same under scheduling: the worker thread and the tasks of its Tokio
\* runtime keep running while they have a step to take, and the GLib main
\* loop keeps firing the 16 ms timeout while it is installed.  Nothing
\* obliges the user to start a run.
ProgFairness ==
    /\ WF_vars(WorkerBegin)
    /\ WF_vars(ExtractEmit)
    /\ WF_vars(Forward)
    /\ WF_vars(WorkerResult)
    /\ WF_vars(WorkerPlaced)
    /\ WF_vars(Poll)

SpecProgressLive == Init /\ [][ProgNext]_vars /\ ProgFairness

(***************************************************************************)
(* Properties of an installation run.                                      *)
(***************************************************************************)
\* The entry's path is absolute or has a ".." segment
IsUnsafePath(e) == e.kind = "file" /\ (e.abs \/ \E i \in 1..Len(e.comps) : e.comps[i] = "..")

Extracting == ipc \in {"unpack", "rename", "post", "done", "failed"}

\* Files and directories that are not below the staging directory
OutsideFiles(fl, r) == [x \in {y \in DOMAIN fl : ~IsUnder(y, temp_dir(r))} |-> fl[x]]
OutsideDirs(ds, r) == {y \in ds : ~IsUnder(y, temp_dir(r))}

\* C3: once an entry with an absolute path or a ".." segment has been read,
\* extraction has failed; and while entries are being unpacked nothing
\* outside {target}/.lxe-extracting is created
C3_UnsafeEntryFailsExtraction ==
    Extracting =>
        /\ (\E i \in 1..(epos - 1) : IsUnsafePath(run.tar[i])) => ipc = "failed"
        /\ (ipc \in {"unpack", "failed"}) =>
              /\ DOMAIN OutsideFiles(files, run) \subseteq DOMAIN files0
              /\ OutsideDirs(dirs, run) \subseteq CreateDirAll(dirs0, target_dir(run))

\* C4: while entries are still being unpacked, and after a run has failed,
\* {target}/{app_id} is as it was before the run
C4_PriorInstallKeptUntilAllUnpacked ==
    (ipc \in {"unpack", "failed"}) =>
        /\ TreeFiles(files, final_app_dir(run)) = TreeFiles(files0, final_app_dir(run))
        /\ TreeDirs(dirs, final_app_dir(run)) = TreeDirs(dirs0, final_app_dir(run))

\* C5: when extraction has returned an error the staging directory does not
\* exist
C5_StagingRemovedOnFailure ==
    ipc = "failed" => ~Exists(files, dirs, temp_dir(run))

\* C7: a system-scope run whose process has neither effective uid 0 nor a
\* granted polkit authorization has stopped with the filesystem untouched
C7_SystemInstallNeedsAuthorization ==
    (ipc # "idle" /\ run.is_system /\ run.euid # "0" /\ run.polkit # "granted") =>
        /\ ipc = "denied"
        /\ files = files0
        /\ dirs = dirs0

C7_Witness ==
    /\ ipc = "denied"
    /\ run.is_system
    /\ run.euid = "1000"
    /\ run.status # None
    /\ run.status[1][2] = "0"
    /\ run.polkit = "error"
    /\ files = files0
    /\ dirs = dirs0

\* C13: once the receiver has been dropped during unpacking and the worker
\* has come to its next emission, the extraction has stopped with an error,
\* the staging directory is gone, and staging is never renamed
C13_DroppedReceiverAbortsExtraction ==
    (~rx.alive /\ (epos > rx.dropped_at \/ ipc \in {"rename", "post", "done"})) =>
        /\ ipc = "failed"
        /\ ~Exists(files, dirs, temp_dir(run))

(***************************************************************************)
(* Properties of an uninstall request.                                     *)
(***************************************************************************)
\* The path has app_id in it and lies under the user data directory,
\* /usr/share, /usr/local/share or /opt
SafeLocation(path, app_id, data_local_dir) ==
    /\ HasComponent(path, app_id)
    /\ \/ IsUnder(path, data_local_dir)
       \/ IsUnder(path, <<"usr", "share">>)
       \/ IsUnder(path, <<"usr", "local", "share">>)
       \/ IsUnder(path, <<"opt">>)

\* C6: whichever entry point served the request, the application directory
\* is gone only if its path is a safe location, and a request for a
\* directory that is not one has removed nothing
C6_UninstallAppliesSafetyCheck ==
    (upc # "idle" /\ Exists(files0, dirs0, ReqAppDir(ureq))
     /\ ~SafeLocation(ReqAppDir(ureq), AppId, ureq.data_local_dir))
    => (files = files0 /\ dirs = dirs0)

(***************************************************************************)
(* Properties of a run of the progress page.                               *)
(***************************************************************************)
\* C12: the foreground has handled a prefix of what the worker sent, in the
\* order it was sent; only the last message sent can be Complete or Error;
\* and the completion or failure signal has been emitted at most once, on
\* handling that message
C12_MessagesInOrderAndOneAdvance ==
    /\ Len(handled) <= Len(sent)
    /\ handled = SubSeq(sent, 1, Len(handled))
    /\ \A i \in 1..(Len(sent) - 1) : ~IsTerminal(sent[i])
    /\ signals <= 1
    /\ signals = 1 <=> (handled # <<>> /\ IsTerminal(handled[Len(handled)]))

\* A run that went through: updates, InstallingDesktopEntry and Complete
\* handled in the order sent, over more than one firing of the timeout
C12_Witness ==
    /\ wpc = "end"
    /\ signals = 1
    /\ ~timer
    /\ handled = sent
    /\ Len(handled) >= 4
    /\ handled[1].type = "Update"
    /\ handled[Len(handled) - 1] = MsgInstalling
    /\ handled[Len(handled)] = MsgComplete

(***************************************************************************)
(* Properties of installing and then uninstalling, or installing again.    *)
(***************************************************************************)
\* The tar stream has legal entry paths only and decodes to its end
WellFormedTar(tar) == \A i \in 1..Len(tar) : tar[i].kind = "file" /\ ~IsUnsafePath(tar[i])

\* The files other than the shell configuration
WithoutShellConfig(fl) == [x \in (DOMAIN fl) \ ShellConfigs |-> fl[x]]

\* C14: after install_silent on a machine without the app, followed by the
\* runtime's uninstall in the same scope, the files, symlinks and
\* directories are those of before the install, the shell configuration
\* left aside
C14_InstallThenUninstallRestores ==
    (/\ upc = "done" /\ ipc = "done" /\ run.entry = "silent"
     /\ WellFormedTar(run.tar) /\ DOMAIN files0 = {})
    => /\ WithoutShellConfig(files) = WithoutShellConfig(files0)
       /\ dirs = dirs0

\* The second run was given what the first was
SamePackage(r2, r1) == [r2 EXCEPT !.state = NoState] = [r1 EXCEPT !.state = NoState]

CreatedBy(r, fl) ==
    LET base == BaseDir(r.is_system)
    IN  {x \in DOMAIN fl : IsUnder(x, app_dir(base, AppId))}
        \cup {bin_dir(base) \o <<r.meta.exec>>}
        \cup IF IsSome(r.meta.icon) /\ (app_dir(base, AppId) \o <<IconName>>) \in DOMAIN fl
             THEN {IconDir(base) \o <<InstalledIconName>>}
             ELSE {}

\* C16: when version 1.1.0 has been installed over version 1.0.0 of the same
\* application, every file or symlink that 1.0.0 created (application tree,
\* launcher symlink, installed icon) and that is still there is one 1.1.0
\* creates as well.
C16_UpgradeLeavesNothingOfOldVersion ==
    (nrun = 2 /\ ipc = "done" /\ snap.run.meta.version = "1.0.0" /\ run.meta.version = "1.1.0") =>
        \A x \in (CreatedBy(snap.run, snap.files) \ DOMAIN files0) \cap DOMAIN files :
            x \in CreatedBy(run, files)

\* The symlinks that were in the bin directory of the uninstall's scope
BinSymlinks0 ==
    {x \in DOMAIN files0 : Parent(x) = bin_dir(ReqBase(ureq)) /\ IsSymlink(files0[x])}

\* C17: when an uninstall (the runtime's or the CLI's) has gone through, a
\* symlink of {base}/bin is gone only if its target lies under
\* {target}/{app_id}; every other symlink is still there, whatever its name
\* and whatever the text of its target.
C17_OnlyAppSymlinksRemoved ==
    upc = "done" =>
        \A x \in BinSymlinks0 :
            x \notin DOMAIN files =>
                IsUnder(LinkTarget(x, files0[x]), app_dir(ReqBase(ureq), AppId))

\* C18: once the authorization and the safety check have passed, the
\* runtime's uninstall goes through whichever removal fails: it returns
\* success, and the steps other than the failing one have run (application
\* directory, desktop entry and manifest are gone unless theirs was the
\* removal that failed).
C18_RemovalFailureDoesNotAbort ==
    (ureq.entry = "runtime" /\ upc \notin {"idle", "denied", "refused"}) =>
        /\ upc = "done"
        /\ ureq.fail # "tree" => ~Exists(files, dirs, app_dir(ReqBase(ureq), AppId))
        /\ ureq.fail # "desktop" => DesktopPath(ReqBase(ureq)) \notin DOMAIN files
        /\ (ureq.data_local_dir \o <<"lxe", "manifests", ManifestName>>) \notin DOMAIN files

\* The state the desktop entries call for: that of the first location that
\* has one, its launch line being the first Exec= line of the entry
StateByLaunchLine(fl, ds, version) ==
    LET found == {i \in 1..3 : DesktopLocations[i].path \in DOMAIN fl}
    IN  IF found = {} THEN "Fresh"
        ELSE LET x == DesktopLocations[CHOOSE i \in found : \A j \in found : i <= j].path
                 entry_info == parse_desktop_first_exec(DesktopLines(x, fl[x]), None, "0.0.0")
             IN  IF entry_info = None THEN "Corrupted"
                 ELSE IF ~Exists(fl, ds, entry_info[1].exec) THEN "Corrupted"
                 ELSE CASE compare_versions(entry_info[1].version, version) = "Equal" -> "Installed"
                        [] compare_versions(entry_info[1].version, version) = "Less" -> "Upgradeable"
                        [] OTHER -> "Downgrade"

\* C19: what detect_install_state returned when the wizard started is Fresh
\* exactly when no desktop entry of the application was in the user or
\* system locations; with one there, Corrupted if it was malformed or the
\* executable of its launch Exec= line was missing, and otherwise
\* Installed, Upgradeable or Downgrade by the versions -- the entries being
\* those the installer wrote.
C19_DetectedStateFollowsLaunchLine ==
    (run.entry = "gui" /\ nrun >= 1) =>
        run.state.kind = IF nrun = 1
                         THEN StateByLaunchLine(files0, dirs0, run.meta.version)
                         ELSE StateByLaunchLine(snap.files, snap.dirs, run.meta.version)

\* The file is 16 bytes and its last 8 are the magic
IsFooterOnly(f) == FileSize(f) = 16 /\ 8 \in MagicPositions(f)

\* C21: a file of exactly 16 bytes ending in the magic is refused whatever
\* its first 8 bytes are: the footer probe does not accept the offset they
\* spell, and read_payload_info returns an error, never a PayloadInfo.
C21_FooterOnlyFileIsRefused ==
    (phase = "read" /\ IsFooterOnly(pkg)) =>
        /\ FooterProbe(pkg, FileSize(pkg)) = None
        /\ ~info.ok
        /\ info.err \in {"LXE magic bytes not found in binary", "failed to fill whole buffer",
                         "Failed to parse LXE metadata"}

\* Such a file whose first 8 bytes spell offset 0 was read: the scan found
\* the magic at 8 and the length field was not there
C21_Witness ==
    /\ phase = "read"
    /\ IsFooterOnly(pkg)
    /\ pkg.runtime_fill = 0
    /\ pkg.runtime_magic = {}
    /\ find_magic_offset(pkg, FileSize(pkg)) = Some(8)
    /\ info.err = "failed to fill whole buffer"

\* The file ends inside the 32-byte digest field that follows its metadata
EndsInsideDigest(f) ==
    LET digest_at == f.runtime_len + MagicLen + LenFieldSize + JsonLen(f.meta)
    IN  f.header_magic /\ digest_at <= FileSize(f) /\ FileSize(f) < digest_at + ChecksumSize

\* C30: whenever read_payload_info returned Ok, payload_offset is at most
\* the file length and payload_offset + payload_size does not pass it, the
\* size not being a wrapped one; and on a file that ends inside the digest
\* field the function returned an error.
C30_PayloadRangeWithinFile ==
    phase = "read" =>
        /\ info.ok =>
              /\ info.payload_offset <= FileSize(pkg)
              /\ info.payload_size >= 0
              /\ info.payload_offset + info.payload_size <= FileSize(pkg)
        /\ EndsInsideDigest(pkg) =>
              /\ ~info.ok
              /\ info.err # "panicked: attempt to subtract with overflow"

\* C22: at no moment does the key file hold key material while group or
\* others may read it.
C22_KeyFileNeverReadableByOthers ==
    (kfile.exists /\ kfile.data = "key") => (kfile.mode[2] < 4 /\ kfile.mode[3] < 4)

\* Every component of the version is a number
IsNumeric(v) == \A i \in 1..Len(v) : ParseComponent(v[i]) # None

\* The number a numeric component spells
ComponentValue(c) == ParseComponent(c)[1]

PackageTree(r) ==
    [x \in {final_app_dir(r) \o r.tar[i].comps : i \in 1..Len(r.tar)} |-> "new"]

\* C24: at whatever point the installer stops while it upgrades an existing
\* install, {target}/{app_id} holds the complete previous tree or the
\* complete new one: at every moment of the second run the directory is
\* there with the files of one of the two.
C24_UpgradeKeepsWholeTree ==
    nrun = 2 =>
        /\ final_app_dir(run) \in dirs
        /\ \/ TreeFiles(files, final_app_dir(run)) = TreeFiles(snap.files, final_app_dir(run))
           \/ TreeFiles(files, final_app_dir(run)) = PackageTree(run)

\* C25: two installations of different applications running at the same
\* time in one target directory do not disturb each other through the
\* staging directory: the tree a process has promoted holds exactly the
\* entries of its own package, with its own bytes
C25_ConcurrentInstallsKeepOwnFiles ==
    procs # NoProcs =>
        \A p \in ProcIds :
            procs[p].pc = "done" =>
                TreeFiles(files, proc_final_app_dir(p)) = ProcTree(p)

\* The path of the list a step of install_silent created
ListedOnDisk(list) == \A i \in 1..Len(list) : Exists(files, dirs, list[i])

\* C26: install_silent saves the manifest last, after the runtime copy, the
\* desktop entry, the launcher symlink and the icon step have succeeded,
\* and the saved manifest lists the application directory and the path each
\* of these steps created
C26_ManifestSavedLastAndComplete ==
    IsSome(post.saved) =>
        LET base == BaseDir(run.is_system)
            listed == {post.saved[1][i] : i \in 1..Len(post.saved[1])}
            icon_made == IF IsSome(post.icon_path)
                         THEN {IconDir(base) \o <<InstalledIconName>>} ELSE {}
        IN  /\ {"runtime", "desktop", "symlink", "icon"} \subseteq post.ok
            /\ post.pc = "saved"
            /\ ipc = "done"
            /\ listed = {app_dir(base, AppId), RuntimePath(base), DesktopPath(base),
                         bin_dir(base) \o <<run.meta.exec>>} \cup icon_made
            /\ ListedOnDisk(post.saved[1])
            /\ files[RuntimePath(base)] = "runtime"
            /\ files[DesktopPath(base)] = DesktopContent(run.meta, TRUE)
            /\ files[bin_dir(base) \o <<run.meta.exec>>] = "link"
            /\ files[ManifestPath] = ManifestContent(run.meta)

\* A manifest was saved by a run that installed an icon
C26_Witness ==
    /\ IsSome(post.saved)
    /\ IsSome(post.icon_path)
    /\ Len(post.saved[1]) = 5

\* The directories applications share under a base directory
SharedDirs(base) ==
    {base \o <<"share">>, applications_dir(base), base \o <<"share", "icons">>,
     base \o <<"share", "lxe">>}

\* C27: whatever app_id uninstall is given, no directory shared between
\* applications is removed and the tree and desktop entry of an application
\* other than app_id stay as they were
C27_UninstallRemovesOnlyOwnTree ==
    upc = "done" =>
        \A base \in {SystemBase, Parent(ureq.data_local_dir)} :
            /\ \A s \in SharedDirs(base) : s \in dirs0 => s \in dirs
            /\ \A other \in {AppId, OtherAppId} \ {ureq.app_id} :
                  /\ TreeFiles(files, app_dir(base, other)) = TreeFiles(files0, app_dir(base, other))
                  /\ TreeDirs(dirs, app_dir(base, other)) = TreeDirs(dirs0, app_dir(base, other))

\* C28: the manifest of the application is deleted only when uninstall's
\* removal steps finished without error: after an uninstall that was
\* denied, refused or that failed, from the command line or from the
\* dialog, a manifest that was there is still there
C28_ManifestKeptWhenUninstallFails ==
    upc \in {"denied", "refused", "failed"} =>
        LET manifest == ureq.data_local_dir \o <<"lxe", "manifests", ManifestName>>
        IN  manifest \in DOMAIN files0 => manifest \in DOMAIN files

\* The foreground has handled Complete or Error and removed its timeout
TerminalDelivered ==
    /\ handled # <<>>
    /\ handled[Len(handled)].type \in {"Complete", "Error"}
    /\ signals = 1
    /\ ~timer

\* C29: every run started from the progress page leads to a terminal
\* message, Complete or Error, handled by the foreground, and the polling
\* timeout is then removed, whether the runtime could be created or not,
\* authorization was given or not, extraction and desktop entry creation
\* succeeded or failed
C29_RunEndsWithTerminalMessage == (wpc = "spawned") ~> TerminalDelivered

\* A run whose desktop entry could not be written has ended with Error
\* handled and the timeout removed
C29_Witness ==
    /\ TerminalDelivered
    /\ wpc = "end"
    /\ prun.rt_ok
    /\ ~prun.desktop_ok
    /\ prun.fail_at = 0
    /\ Len(handled) >= 2
    /\ handled[Len(handled)] = MsgError
    /\ handled[Len(handled) - 1] = MsgInstalling

====
